---- MODULE Spec2Model ----
(***************************************************************************)
(* Verification model of the sentry-audit detection and risk-scoring       *)
(* engine: risk scoring (utils/scoring.py), the static analysis            *)
(* orchestrator (services/analyzers/static_analyzer.py), the audit         *)
(* pipeline (api/routes/audit.py, process_audit_task), the detectors, the  *)
(* extractor and the gas heuristics on source text, and the external       *)
(* reasoning engine (services/ai/reasoning_engine.py).                     *)
(*                                                                         *)
(* Six specifications share the module:                                    *)
(*   SpecScoring  applies the two scoring functions to a histogram         *)
(*   SpecStatic   runs StaticAnalyzer.analyze over the detector registry   *)
(*   Spec         the audit pipeline over the database                     *)
(*   SpecText     applies one text function to one source                  *)
(*   SpecAI       runs AIReasoningEngine.analyze on one response           *)
(*   SpecPair     two runs of the pipeline, interleaved                    *)
(***************************************************************************)
EXTENDS Integers, Sequences, FiniteSets, TLC

VARIABLES
    histogram,        \* scoring: the severity_counts dictionary given to calculate_risk_score
    score,            \* scoring: <<>> or <<value returned by calculate_risk_score>>
    rating,           \* scoring: <<>> or <<value returned by calculate_security_rating>>
    language,         \* analyze: the language argument
    detect_outcome,   \* analyze: what each registered detector's detect does on the code
    extract_ok,       \* analyze: whether extract_functions / find_external_calls return
    analyze_pc,       \* analyze: position inside StaticAnalyzer.analyze
    det_idx,          \* analyze: index of the next detector of self.detectors
    findings,         \* analyze: the local list findings
    result,           \* analyze: <<>> or <<returned list>>; escaped exceptions are recorded in analyze_pc
    db,               \* pipeline: committed rows of table audits, by audit id
    vulnerability_rows, \* pipeline: committed rows of table vulnerabilities, by audit_id
    task,             \* pipeline: one process_audit_task execution per audit id
    code,             \* text: the source text, a sequence of lines, each a sequence of tokens
    out,              \* text: <<>> or <<[fn, value]>>, the function applied to code and its result
    client,           \* ai: whether AIReasoningEngine.__init__ built a client (API key configured)
    response,         \* ai: what client.messages.create does for this request
    ai_pc,            \* ai: position inside AIReasoningEngine.analyze
    ai_result         \* ai: the local analysis_result, then the returned structure

vars == <<histogram, score, rating,
          language, detect_outcome, extract_ok, analyze_pc, det_idx, findings, result,
          db, vulnerability_rows, task,
          code, out, client, response, ai_pc, ai_result>>

scoring_vars == <<histogram, score, rating>>
static_vars == <<language, detect_outcome, extract_ok, analyze_pc, det_idx, findings, result>>
pipeline_vars == <<db, vulnerability_rows, task>>
text_vars == <<code, out>>
ai_vars == <<client, response, ai_pc, ai_result>>

(***************************************************************************)
(* Bounds                                                                  *)
(***************************************************************************)
MaxCount == 4            \* largest count of one severity in a scored histogram
MaxDetectorFindings == 2 \* longest list one detector returns
MaxStaticFindings == 2   \* longest static result handed to the pipeline
MaxAIFindings == 1       \* longest vulnerability list the external analyzer returns

(***************************************************************************)
(* Shared vocabulary                                                       *)
(***************************************************************************)
Severities == {"critical", "high", "medium", "low", "info"}

\* Python dictionaries iterate in insertion order; this is the order in which
\* the pipeline builds severity_counts, followed by a key the weights lack.
KeyOrder == <<"critical", "high", "medium", "low", "info", "other">>

Max(a, b) == IF a >= b THEN a ELSE b

None == <<>>
Some(x) == <<x>>

\* a dictionary without keys
NoAttrs == [f \in {} |-> None]

RECURSIVE SeqsUpTo(_, _)
SeqsUpTo(S, n) ==
    IF n = 0 THEN {<<>>}
    ELSE LET shorter == SeqsUpTo(S, n - 1)
         IN shorter \cup {Append(s, x) : s \in shorter, x \in S}

(***************************************************************************)
(* utils/scoring.py                                                        *)
(***************************************************************************)
weights == [critical |-> 25, high |-> 15, medium |-> 8, low |-> 3, info |-> 1]

items(severity_counts) ==
    SelectSeq(KeyOrder, LAMBDA k : k \in DOMAIN severity_counts)

\* for severity, count in severity_counts.items(): if severity in weights: score -= ...
RECURSIVE ScoreLoop(_, _, _, _)
ScoreLoop(s, keys, severity_counts, w) ==
    IF keys = <<>> THEN s
    ELSE LET severity == Head(keys)
             count == severity_counts[severity]
         IN ScoreLoop(IF severity \in DOMAIN w
                         THEN s - (w[severity] * count)
                         ELSE s,
                      Tail(keys), severity_counts, w)

calculate_risk_score_unfloored(severity_counts) ==
    ScoreLoop(100, items(severity_counts), severity_counts, weights)

calculate_risk_score_low5(severity_counts) ==
    Max(0, ScoreLoop(100, items(severity_counts), severity_counts,
                     [weights EXCEPT !.low = 5]))

calculate_risk_score(severity_counts) ==
    Max(0, ScoreLoop(100, items(severity_counts), severity_counts, weights))

calculate_security_rating_strict(risk_score) ==
    IF risk_score > 95 THEN "A+"
    ELSE IF risk_score > 90 THEN "A"
    ELSE IF risk_score > 85 THEN "A-"
    ELSE IF risk_score > 80 THEN "B+"
    ELSE IF risk_score > 75 THEN "B"
    ELSE IF risk_score > 70 THEN "B-"
    ELSE IF risk_score > 65 THEN "C+"
    ELSE IF risk_score > 60 THEN "C"
    ELSE IF risk_score > 55 THEN "C-"
    ELSE IF risk_score > 50 THEN "D"
    ELSE "F"

\* the two top bands exchanged
calculate_security_rating_top_exchanged(risk_score) ==
    IF risk_score >= 95 THEN "A"
    ELSE IF risk_score >= 90 THEN "A+"
    ELSE calculate_security_rating_strict(risk_score + 1)

calculate_security_rating(risk_score) ==
    IF risk_score >= 95 THEN "A+"
    ELSE IF risk_score >= 90 THEN "A"
    ELSE IF risk_score >= 85 THEN "A-"
    ELSE IF risk_score >= 80 THEN "B+"
    ELSE IF risk_score >= 75 THEN "B"
    ELSE IF risk_score >= 70 THEN "B-"
    ELSE IF risk_score >= 65 THEN "C+"
    ELSE IF risk_score >= 60 THEN "C"
    ELSE IF risk_score >= 55 THEN "C-"
    ELSE IF risk_score >= 50 THEN "D"
    ELSE "F"

(***************************************************************************)
(* Scoring harness: audit.py lines 142-143 applied to any histogram        *)
(***************************************************************************)
HistogramKeys == Severities \cup {"other"}

InitScoring ==
    /\ histogram \in [HistogramKeys -> 0..MaxCount]
    /\ score = None
    /\ rating = None
    /\ language = "solidity" /\ detect_outcome = <<>> /\ extract_ok = TRUE
    /\ analyze_pc = "idle" /\ det_idx = 1 /\ findings = <<>> /\ result = None
    /\ db = <<>> /\ vulnerability_rows = <<>> /\ task = <<>>
    /\ code = <<>> /\ out = None
    /\ client = FALSE /\ response = None /\ ai_pc = "idle" /\ ai_result = None

\* audit.risk_score = calculate_risk_score(severity_counts)
ComputeRiskScore ==
    /\ score = None
    /\ score' = Some(calculate_risk_score(histogram))
    /\ UNCHANGED <<histogram, rating, static_vars, pipeline_vars, text_vars, ai_vars>>

\* audit.security_rating = calculate_security_rating(audit.risk_score)
ComputeRating ==
    /\ score # None
    /\ rating = None
    /\ rating' = Some(calculate_security_rating(score[1]))
    /\ UNCHANGED <<histogram, score, static_vars, pipeline_vars, text_vars, ai_vars>>

(***************************************************************************)
(* services/detectors: the registry and the findings a detector creates    *)
(***************************************************************************)
Languages == {"solidity", "vyper", "move"}

\* StaticAnalyzer.__init__: self.detectors, in registration order
detectors == <<"ReentrancyDetector", "AccessControlDetector",
               "IntegerOverflowDetector", "UncheckedCallDetector",
               "TxOriginDetector">>

rule_id == [ReentrancyDetector |-> "SEN-001", AccessControlDetector |-> "SEN-002",
            IntegerOverflowDetector |-> "SEN-003", UncheckedCallDetector |-> "SEN-004",
            TxOriginDetector |-> "SEN-005"]

\* self.severity set by each detector's __init__
default_severity == [ReentrancyDetector |-> "critical", AccessControlDetector |-> "critical",
                     IntegerOverflowDetector |-> "high", UncheckedCallDetector |-> "high",
                     TxOriginDetector |-> "high"]

\* finding["severity"] = ... overrides applied by a detector after create_finding
override_severity == [ReentrancyDetector |-> {"high"}, AccessControlDetector |-> {"high"},
                      IntegerOverflowDetector |-> {"medium"}, UncheckedCallDetector |-> {},
                      TxOriginDetector |-> {}]

\* "references": references, the argument stored as it was passed
references_as_given(references) == references

\* "references": references or []; <<>> is None and <<list>> a list
references_or_empty(references) ==
    IF references = None \/ references = Some(<<>>) THEN Some(<<>>) ELSE references

\* BaseDetector.create_finding: the fields the pipeline and the orchestrator read,
\* for a call that passes no references
create_finding(d) ==
    [rule_id |-> rule_id[d], severity |-> default_severity[d], category |-> "security",
     detected_by |-> "static", confidence |-> 90, references |-> references_or_empty(None)]

DetectorFindings(d) ==
    {create_finding(d)}
      \cup {[create_finding(d) EXCEPT !.severity = sv] : sv \in override_severity[d]}

\* What one call of detect does: it raises, or it returns a list of its findings.
DetectOutcomes(d, n) ==
    {[raises |-> TRUE, findings |-> <<>>]}
      \cup {[raises |-> FALSE, findings |-> fs] : fs \in SeqsUpTo(DetectorFindings(d), n)}

\* Every detector starts with: if language != "solidity": return []
detect(i) ==
    LET o == detect_outcome[i]
    IN IF o.raises THEN o
       ELSE IF language # "solidity" THEN [raises |-> FALSE, findings |-> <<>>]
       ELSE o

(***************************************************************************)
(* services/analyzers/static_analyzer.py: StaticAnalyzer.analyze           *)
(***************************************************************************)
InitStatic ==
    /\ language \in Languages
    /\ extract_ok \in BOOLEAN
    /\ LET n == IF language = "solidity" /\ extract_ok THEN MaxDetectorFindings ELSE 0
       IN detect_outcome \in
            {<<o1, o2, o3, o4, o5>> :
               o1 \in DetectOutcomes(detectors[1], n), o2 \in DetectOutcomes(detectors[2], n),
               o3 \in DetectOutcomes(detectors[3], n), o4 \in DetectOutcomes(detectors[4], n),
               o5 \in DetectOutcomes(detectors[5], n)}
    /\ analyze_pc = "start"
    /\ det_idx = 1
    /\ findings = <<>>
    /\ result = None
    /\ histogram = <<>> /\ score = None /\ rating = None
    /\ db = <<>> /\ vulnerability_rows = <<>> /\ task = <<>>
    /\ code = <<>> /\ out = None
    /\ client = FALSE /\ response = None /\ ai_pc = "idle" /\ ai_result = None

\* if language not in ["solidity", "vyper"]: return []
AnalyzeUnsupported ==
    /\ analyze_pc = "start"
    /\ language \notin {"solidity", "vyper"}
    /\ analyze_pc' = "returned"
    /\ result' = Some(<<>>)
    /\ UNCHANGED <<language, detect_outcome, extract_ok, det_idx, findings, scoring_vars, pipeline_vars, text_vars, ai_vars>>

\* findings = []; functions = extract_functions(...); external_calls = find_external_calls(...)
AnalyzeExtract ==
    /\ analyze_pc = "start"
    /\ language \in {"solidity", "vyper"}
    /\ findings' = <<>>
    /\ det_idx' = 1
    /\ analyze_pc' = IF extract_ok THEN "detectors" ELSE "outer_except"
    /\ UNCHANGED <<language, detect_outcome, extract_ok, result, scoring_vars, pipeline_vars, text_vars, ai_vars>>

\* findings.extend(detector_findings)
extend_reversed(list, more) == more \o list

extend(list, more) == list \o more

\* except Exception as e: logger.error(...); continue
DetectorError_unisolated(i) == [pc |-> "outer_except", det_idx |-> i]

DetectorError(i) == [pc |-> "detectors", det_idx |-> i + 1]

\* one iteration of: for detector in self.detectors
RunDetector ==
    /\ analyze_pc = "detectors"
    /\ det_idx <= Len(detectors)
    /\ LET o == detect(det_idx)
       IN IF o.raises
             THEN /\ analyze_pc' = DetectorError(det_idx).pc
                  /\ det_idx' = DetectorError(det_idx).det_idx
                  /\ UNCHANGED findings
             ELSE /\ findings' = IF o.findings # <<>>
                                    THEN extend(findings, o.findings)
                                    ELSE findings
                  /\ det_idx' = det_idx + 1
                  /\ UNCHANGED analyze_pc
    /\ UNCHANGED <<language, detect_outcome, extract_ok, result, scoring_vars, pipeline_vars, text_vars, ai_vars>>

\* return findings
AnalyzeReturn ==
    /\ analyze_pc = "detectors"
    /\ det_idx > Len(detectors)
    /\ analyze_pc' = "returned"
    /\ result' = Some(findings)
    /\ UNCHANGED <<language, detect_outcome, extract_ok, det_idx, findings, scoring_vars, pipeline_vars, text_vars, ai_vars>>

\* except Exception as e: logger.error("Static analysis failed"); return []
AnalyzeOuterExcept ==
    /\ analyze_pc = "outer_except"
    /\ analyze_pc' = "returned"
    /\ result' = Some(<<>>)
    /\ UNCHANGED <<language, detect_outcome, extract_ok, det_idx, findings, scoring_vars, pipeline_vars, text_vars, ai_vars>>

(***************************************************************************)
(* Source text.  A source is a sequence of lines (code.split('\n')), a     *)
(* line a sequence of tokens: a word (a maximal run of \w characters), a   *)
(* single punctuation character, or one blank.  Words are never adjacent.  *)
(***************************************************************************)
NL == "\n"

Blank == {" ", NL}

Punct == {"(", ")", "{", "}", "[", "]", "=", "+", "-", "*", "<", ">", "!", ";",
          ",", ".", "/", "^", "\""}

NonWord == Punct \cup Blank

Digits == {"0", "1", "2", "3", "4", "5", "6", "7", "8", "9"}

\* Character classes of the regular expressions, as a token set or its complement
Class(set, neg) == [set |-> set, neg |-> neg]
InClass(t, c) == (t \in c.set) # c.neg

word == Class(NonWord, TRUE)                \* \w
space == Class(Blank, FALSE)                 \* \s
digit == Class(Digits, FALSE)                \* \d
anychar == Class({NL}, TRUE)                 \* .
Not(set) == Class(set, TRUE)              \* [^...]
Tok(t) == Class({t}, FALSE)

\* Pattern items: one class with a quantifier
One(c) == [c |-> c, q |-> "1"]
Star(c) == [c |-> c, q |-> "*"]
Plus(c) == [c |-> c, q |-> "+"]
Opt(c) == [c |-> c, q |-> "?"]
Lit(ts) == [i \in DOMAIN ts |-> One(Tok(ts[i]))]

Min(a, b) == IF a <= b THEN a ELSE b

\* the longest run of tokens of class c in txt from position i
RECURSIVE Run(_, _, _)
Run(c, txt, i) ==
    IF i > Len(txt) \/ ~InClass(txt[i], c) THEN 0 ELSE 1 + Run(c, txt, i + 1)

\* re.match of pattern p from item k at position i of txt: the position after
\* the match, 0 when there is none.  Quantifiers are greedy and backtrack.
RECURSIVE MatchEnd(_, _, _, _)
RECURSIVE TryReps(_, _, _, _, _, _)
MatchEnd(p, k, txt, i) ==
    IF k > Len(p) THEN i
    ELSE IF p[k].q = "1"
         THEN IF i <= Len(txt) /\ InClass(txt[i], p[k].c)
                 THEN MatchEnd(p, k + 1, txt, i + 1)
                 ELSE 0
         ELSE LET n == Run(p[k].c, txt, i)
                  hi == IF p[k].q = "?" THEN Min(n, 1) ELSE n
                  lo == IF p[k].q = "+" THEN 1 ELSE 0
              IN TryReps(p, k, txt, i, hi, lo)

TryReps(p, k, txt, i, r, lo) ==
    IF r < lo THEN 0
    ELSE LET e == MatchEnd(p, k + 1, txt, i + r)
         IN IF e # 0 THEN e ELSE TryReps(p, k, txt, i, r - 1, lo)

\* re.search(p, txt) is not None
Search(p, txt) == \E i \in 1..(Len(txt) + 1) : MatchEnd(p, 1, txt, i) # 0

\* re.finditer(p, txt): the non-overlapping matches from position from on, as
\* records of the first position and the position after the last
RECURSIVE FindIter(_, _, _)
FindIter(p, txt, from) ==
    LET starts == {i \in from..(Len(txt) + 1) : MatchEnd(p, 1, txt, i) # 0}
    IN IF starts = {} THEN <<>>
       ELSE LET i == CHOOSE x \in starts : \A y \in starts : x <= y
                e == MatchEnd(p, 1, txt, i)
            IN <<[start |-> i, end |-> e]>>
                 \o FindIter(p, txt, IF e = i THEN i + 1 ELSE e)

\* text.find(element, from): the first position at or after from, 0 for -1
Find(text, element, from) ==
    LET hits == {i \in from..Len(text) : text[i] = element}
    IN IF hits = {} THEN 0 ELSE CHOOSE i \in hits : \A j \in hits : i <= j

\* sub in txt, for a literal token sequence sub
Contains(txt, sub) ==
    \E i \in 1..(Len(txt) - Len(sub) + 1) : SubSeq(txt, i, i + Len(sub) - 1) = sub

\* txt.strip().startswith(sub)
StripStartsWith(txt, sub) ==
    LET k == Run(space, txt, 1)
    IN k + Len(sub) <= Len(txt) /\ SubSeq(txt, k + 1, k + Len(sub)) = sub

\* '\n'.join(lines): the whole source as one token sequence
RECURSIVE Join(_)
Join(lines) ==
    IF lines = <<>> THEN <<>>
    ELSE IF Len(lines) = 1 THEN lines[1]
    ELSE lines[1] \o <<NL>> \o Join(Tail(lines))

\* code[:pos].count('\n') + 1
LineOf(txt, pos) == Cardinality({j \in 1..(pos - 1) : txt[j] = NL}) + 1

\* the character offset of token position pos: len of the text before it
RECURSIVE Offset(_, _)
Offset(txt, pos) == IF pos <= 1 THEN 0 ELSE Offset(txt, pos - 1) + Len(txt[pos - 1])

\* code[lo:hi] for character offsets lo..hi, as the tokens lying wholly inside
Slice(txt, lo, hi) ==
    LET inside == SelectSeq([i \in DOMAIN txt |-> i],
                            LAMBDA i : Offset(txt, i) >= lo /\ Offset(txt, i + 1) <= hi)
    IN [k \in DOMAIN inside |-> txt[inside[k]]]

\* BaseDetector.create_finding called with line_number and a list of references
create_finding_at(det, line_number) ==
    [create_finding(det) EXCEPT !.references = references_or_empty(Some(<<"url">>))]
      @@ [line_number |-> line_number]

(***************************************************************************)
(* services/detectors/reentrancy_detector.py: ReentrancyDetector.detect    *)
(***************************************************************************)
external_call_patterns ==
    <<Lit(<<".", "call", "{">>), Lit(<<".", "call", "(">>), Lit(<<".", "delegatecall", "(">>),
      Lit(<<".", "send", "(">>), Lit(<<".", "transfer", "(">>)>>

\* r'\w+\[[\w\.]+\]\s*=|\w+\s*=', one pattern per alternative
state_change_pattern ==
    <<<<Plus(word), One(Tok("[")), Plus(Not(NonWord \ {"."})), One(Tok("]")), Star(space), One(Tok("="))>>,
      <<Plus(word), Star(space), One(Tok("="))>>>>

SearchAny(patterns, txt) == \E k \in DOMAIN patterns : Search(patterns[k], txt)

\* the Checks-Effects-Interactions look-ahead: range(i + 1, min(i + 11, len(lines)))
LookAhead == 10

function_boundary(line) == Contains(line, <<"function", " ">>) \/ StripStartsWith(line, <<"}">>)

\* a look-ahead that examines only the line right after the call
state_change_after_call_next_line(lines, j, last) ==
    j <= last /\ ~function_boundary(lines[j]) /\ SearchAny(state_change_pattern, lines[j])

\* a look-ahead over the rest of the source, with no window and no boundary
state_change_after_call_whole_source(lines, j, last) ==
    \E k \in j..Len(lines) : SearchAny(state_change_pattern, lines[k])

RECURSIVE state_change_after_call(_, _, _)
state_change_after_call(lines, j, last) ==
    IF j > last THEN FALSE
    ELSE IF function_boundary(lines[j]) THEN FALSE
    ELSE IF SearchAny(state_change_pattern, lines[j]) THEN TRUE
    ELSE state_change_after_call(lines, j + 1, last)

\* r'function\s+(\w+)\([^)]*\)\s+.*payable'
payable_pattern ==
    <<One(Tok("function")), Plus(space), Plus(word), One(Tok("(")), Star(Not({")"})), One(Tok(")")),
      Plus(space), Star(anychar), One(Tok("payable"))>>

\* code[max(0, match.start() - 200):match.end() + 500]
function_context(txt, m) == Slice(txt, Max(0, Offset(txt, m.start) - 200), Offset(txt, m.end) + 500)

ReentrancyDetector_detect(lines, lang) ==
    IF lang # "solidity" THEN <<>>
    ELSE LET det == "ReentrancyDetector"
             txt == Join(lines)
             calls == SelectSeq([i \in DOMAIN lines |-> i],
                        LAMBDA i : /\ SearchAny(external_call_patterns, lines[i])
                                   /\ state_change_after_call(lines, i + 1,
                                                              Min(i + LookAhead, Len(lines))))
             payable == SelectSeq(FindIter(payable_pattern, txt, 1),
                          LAMBDA m : ~Contains(function_context(txt, m), <<"nonReentrant">>))
         IN [k \in DOMAIN calls |-> create_finding_at(det, calls[k])]
              \o [k \in DOMAIN payable |->
                    [create_finding(det) @@ [line_number |-> LineOf(txt, payable[k].start)]
                       EXCEPT !.severity = "high"]]

(***************************************************************************)
(* services/detectors/unchecked_call_detector.py:                          *)
(* UncheckedCallDetector.detect                                            *)
(***************************************************************************)
\* (pattern, call_type) in the order the detector tries them
call_patterns ==
    <<[pattern |-> Lit(<<".", "call", "{">>) \o <<Star(Not({"}"}))>> \o Lit(<<"}", "(">>)
                     \o <<Star(Not({")"})), One(Tok(")"))>>,
       call_type |-> "call"],
      [pattern |-> Lit(<<".", "call", "(">>) \o <<Star(Not({")"})), One(Tok(")"))>>,
       call_type |-> "call"],
      [pattern |-> Lit(<<".", "delegatecall", "(">>) \o <<Star(Not({")"})), One(Tok(")"))>>,
       call_type |-> "delegatecall"],
      [pattern |-> Lit(<<".", "send", "(">>) \o <<Star(Not({")"})), One(Tok(")"))>>,
       call_type |-> "send"]>>

\* r'\(\s*bool\s+\w+\s*,?\s*\)'
tuple_capture_pattern ==
    <<One(Tok("(")), Star(space), One(Tok("bool")), Plus(space), Plus(word), Star(space),
      Opt(Tok(",")), Star(space), One(Tok(")"))>>

\* r'bool\s+\w+\s*='
bool_capture_pattern == <<One(Tok("bool")), Plus(space), Plus(word), Star(space), One(Tok("="))>>

\* 'require(' in lines[j] or 'assert(' in lines[j] or 'if(' in lines[j]
check_in_line(line) ==
    \/ Contains(line, <<"require", "(">>)
    \/ Contains(line, <<"assert", "(">>)
    \/ Contains(line, <<"if", "(">>)

\* for j in range(i + 1, min(i + 5, len(lines)))
CheckWindow == 4

checked_in_following_lines(lines, i) ==
    \E j \in (i + 1)..Min(i + CheckWindow, Len(lines)) : check_in_line(lines[j])

is_checked(lines, i) ==
    IF Search(tuple_capture_pattern, lines[i]) THEN checked_in_following_lines(lines, i)
    ELSE IF Search(bool_capture_pattern, lines[i]) THEN checked_in_following_lines(lines, i)
    ELSE Contains(lines[i], <<"require", "(">>) \/ Contains(lines[i], <<"assert", "(">>)

is_comment(line) == StripStartsWith(line, <<"/", "/">>) \/ StripStartsWith(line, <<"/", "*">>)

\* the unchecked patterns of a line, in order; the detector reports the first and breaks
unchecked_matches(lines, i) ==
    IF is_comment(lines[i]) \/ is_checked(lines, i) THEN <<>>
    ELSE SelectSeq([k \in DOMAIN call_patterns |-> k],
                   LAMBDA k : Search(call_patterns[k].pattern, lines[i]))

UncheckedCallDetector_detect(lines, lang) ==
    IF lang # "solidity" THEN <<>>
    ELSE LET det == "UncheckedCallDetector"
             hits == SelectSeq([i \in DOMAIN lines |-> i],
                               LAMBDA i : unchecked_matches(lines, i) # <<>>)
         IN [k \in DOMAIN hits |->
               create_finding_at(det, hits[k])
                 @@ [call_type |-> call_patterns[Head(unchecked_matches(lines, hits[k]))].call_type]]

(***************************************************************************)
(* services/detectors/tx_origin_detector.py: TxOriginDetector.detect       *)
(***************************************************************************)
tx_origin == <<"tx", ".", "origin">>

tx_origin_patterns ==
    <<<<One(Tok("require")), Star(space), One(Tok("(")), Star(space)>> \o Lit(tx_origin)
         \o <<Star(space)>> \o Lit(<<"=", "=">>),
      <<One(Tok("require")), Star(space), One(Tok("(")), Star(space)>> \o Lit(tx_origin)
         \o <<Star(space)>> \o Lit(<<"!", "=">>),
      <<One(Tok("if")), Star(space), One(Tok("(")), Star(space)>> \o Lit(tx_origin)
         \o <<Star(space)>> \o Lit(<<"=", "=">>),
      <<One(Tok("if")), Star(space), One(Tok("(")), Star(space)>> \o Lit(tx_origin)
         \o <<Star(space)>> \o Lit(<<"!", "=">>),
      Lit(tx_origin) \o <<Star(space)>> \o Lit(<<"=", "=">>) \o <<Star(space), One(Tok("owner"))>>,
      Lit(tx_origin) \o <<Star(space)>> \o Lit(<<"=", "=">>) \o <<Star(space), One(Tok("admin"))>>>>

matching_patterns(line) ==
    SelectSeq([k \in DOMAIN tx_origin_patterns |-> k],
              LAMBDA k : Search(tx_origin_patterns[k], line))

\* every matching pattern reported: the loop over the patterns without its break
reported_patterns_no_break(line) == matching_patterns(line)

\* for pattern in tx_origin_patterns: if re.search(pattern, line): ...; break
reported_patterns(line) ==
    IF matching_patterns(line) = <<>> THEN <<>> ELSE <<Head(matching_patterns(line))>>

RECURSIVE TxOriginScan(_, _)
TxOriginScan(lines, i) ==
    IF i > Len(lines) THEN <<>>
    ELSE [k \in DOMAIN reported_patterns(lines[i]) |-> create_finding_at("TxOriginDetector", i)]
           \o TxOriginScan(lines, i + 1)

TxOriginDetector_detect(lines, lang) ==
    IF lang # "solidity" THEN <<>> ELSE TxOriginScan(lines, 1)

\* line.replace('tx.origin', 'msg.sender')
RECURSIVE replace_tx_origin(_)
replace_tx_origin(line) ==
    IF line = <<>> THEN <<>>
    ELSE IF Len(line) >= 3 /\ SubSeq(line, 1, 3) = tx_origin
         THEN <<"msg", ".", "sender">> \o replace_tx_origin(SubSeq(line, 4, Len(line)))
         ELSE <<Head(line)>> \o replace_tx_origin(Tail(line))

(***************************************************************************)
(* services/detectors/access_control_detector.py:                          *)
(* AccessControlDetector.detect                                            *)
(***************************************************************************)
critical_keywords == {"selfdestruct", "suicide", "delegatecall", "transferOwnership",
                      "withdraw", "mint", "burn", "pause", "unpause", "setAdmin"}

visibilities == {"public", "external", "private", "internal"}

\* r'function\s+(\w+)\s*\([^)]*\)\s+(public|external|private|internal)?([^{]*)\{'
function_pattern ==
    <<One(Tok("function")), Plus(space), Plus(word), Star(space), One(Tok("(")),
      Star(Not({")"})), One(Tok(")")), Plus(space), Opt(Class(visibilities, FALSE)),
      Star(Not({"{"})), One(Tok("{"))>>

\* sub in text, where text is source text and sub a word: sub may be part of
\* a longer word of the text
longer_words == [_mint |-> {"mint"}, _burn |-> {"burn"}, _initialized |-> {"initialized"},
                 whenNotPaused |-> {}, withdrawAll |-> {"withdraw"}]

WordIn(sub, txt) ==
    \E i \in DOMAIN txt :
        \/ txt[i] = sub
        \/ txt[i] \in DOMAIN longer_words /\ sub \in longer_words[txt[i]]

\* the groups of one match m of function_pattern in txt
function_groups(txt, m) ==
    LET name_at == m.start + 1 + Run(space, txt, m.start + 1)
        close == CHOOSE i \in name_at..m.end : txt[i] = ")" /\ \A j \in name_at..(i - 1) : txt[j] # ")"
        after == close + 1 + Run(space, txt, close + 1)
        has_visibility == txt[after] \in visibilities
    IN [function_name |-> txt[name_at],
        visibility |-> IF has_visibility THEN txt[after] ELSE "public",
        modifiers_section |-> SubSeq(txt, IF has_visibility THEN after + 1 ELSE after, m.end - 2)]

\* _find_function_end(code, start): start is the position after the opening brace
RECURSIVE find_function_end_from(_, _, _)
find_function_end_from(txt, i, brace_count) ==
    IF i > Len(txt) \/ brace_count = 0 THEN i
    ELSE find_function_end_from(txt, i + 1,
            IF txt[i] = "{" THEN brace_count + 1
            ELSE IF txt[i] = "}" THEN brace_count - 1 ELSE brace_count)

find_function_end(txt, start) == find_function_end_from(txt, start, 1)

has_critical_operation(function_body) == \E kw \in critical_keywords : WordIn(kw, function_body)

has_access_control(modifiers_section, function_body) ==
    \/ \E modifier \in {"onlyOwner", "onlyAdmin", "onlyRole", "nonReentrant"} :
          WordIn(modifier, modifiers_section)
    \/ Contains(function_body, <<"require", "(", "msg", ".", "sender", " ", "=", "=">>)
    \/ Contains(function_body, <<"require", "(", "owner", " ", "=", "=">>)

\* the initializer finding keeping the detector's default severity
initializer_severity_default == "critical"

\* finding["severity"] = "high"
initializer_severity == "high"

\* the findings for one match of function_pattern
access_control_findings(txt, m) ==
    LET g == function_groups(txt, m)
        function_body == SubSeq(txt, m.end, find_function_end(txt, m.end) - 1)
        line_num == LineOf(txt, m.start)
        det == "AccessControlDetector"
    IN IF WordIn("view", g.modifiers_section) \/ WordIn("pure", g.modifiers_section) THEN <<>>
       ELSE (IF has_critical_operation(function_body)
                   /\ ~has_access_control(g.modifiers_section, function_body)
                THEN <<create_finding_at(det, line_num)>> ELSE <<>>)
            \o (IF /\ g.function_name \in {"initialize", "init", "setup"}
                   /\ g.visibility \in {"public", "external"}
                   /\ ~WordIn("initialized", function_body)
                   /\ ~WordIn("initializer", g.modifiers_section)
                THEN <<[create_finding_at(det, line_num) EXCEPT !.severity = initializer_severity]>>
                ELSE <<>>)

RECURSIVE Flatten(_)
Flatten(lists) == IF lists = <<>> THEN <<>> ELSE Head(lists) \o Flatten(Tail(lists))

\* the detector with finding["severity"] = "high" written to self.severity:
\* every finding after an initializer finding is created with the lowered default
AccessControlDetector_detect_lowering_default(lines, lang) ==
    IF lang # "solidity" THEN <<>>
    ELSE LET txt == Join(lines)
             matches == FindIter(function_pattern, txt, 1)
             fs == Flatten([k \in DOMAIN matches |-> access_control_findings(txt, matches[k])])
         IN [i \in DOMAIN fs |->
               IF \E j \in 1..(i - 1) : fs[j].severity = initializer_severity
                  THEN [fs[i] EXCEPT !.severity = initializer_severity]
                  ELSE fs[i]]

AccessControlDetector_detect(lines, lang) ==
    IF lang # "solidity" THEN <<>>
    ELSE LET txt == Join(lines)
             matches == FindIter(function_pattern, txt, 1)
         IN Flatten([k \in DOMAIN matches |-> access_control_findings(txt, matches[k])])

(***************************************************************************)
(* services/gas_analyzer.py: GasAnalyzer                                   *)
(***************************************************************************)
\* the "savings" text of each heuristic's entries, by "issue"
savings ==
    [storage_in_loops |-> "2100 * (n-1) gas", storage_packing |-> "20,000 gas on deployment",
     public_function |-> "~200 gas per call", redundant_initialization |-> "~5 gas",
     string_usage |-> "Variable, typically 1000+ gas",
     array_length |-> "~100 gas per iteration"]

optimization(issue, line) == [issue |-> issue, line |-> line, savings |-> savings[issue]]

\* _extract_gas_value: int of the first run of digits of the text, 0 without one
extract_gas_value(savings_str) ==
    CASE savings_str = "2100 * (n-1) gas" -> 2100
      [] savings_str = "20,000 gas on deployment" -> 20
      [] savings_str = "~200 gas per call" -> 200
      [] savings_str = "~5 gas" -> 5
      [] savings_str = "Variable, typically 1000+ gas" -> 1000
      [] savings_str = "~100 gas per iteration" -> 100
      [] OTHER -> 0

\* loop_body_end = min(i + 15, len(lines)); for j in range(i + 1, loop_body_end)
StorageWindow == 14

\* re.search(r'\w+\[\w+\]', lines[j]) or 'storage' in lines[j]
storage_read(line) ==
    \/ Search(<<Plus(word), One(Tok("[")), Plus(word), One(Tok("]"))>>, line)
    \/ WordIn("storage", line)

detect_storage_in_loops(lines) ==
    LET headers == SelectSeq([i \in DOMAIN lines |-> i],
                     LAMBDA i : /\ \/ Contains(lines[i], <<"for", "(">>)
                                   \/ Contains(lines[i], <<"for", " ", "(">>)
                                /\ \E j \in (i + 1)..Min(i + StorageWindow, Len(lines)) :
                                      storage_read(lines[j]))
    IN [k \in DOMAIN headers |-> optimization("storage_in_loops", headers[k])]

Entries(issue, pattern, txt) ==
    LET matches == FindIter(pattern, txt, 1)
    IN [k \in DOMAIN matches |-> optimization(issue, LineOf(txt, matches[k].start))]

\* r'uint256\s+\w+;\s*\n\s*uint8\s+\w+;'
detect_poor_storage_packing(lines) ==
    Entries("storage_packing",
            <<One(Tok("uint256")), Plus(space), Plus(word), One(Tok(";")), Star(space), One(Tok(NL)),
              Star(space), One(Tok("uint8")), Plus(space), Plus(word), One(Tok(";"))>>,
            Join(lines))

\* r'function\s+(\w+)\([^)]*\)\s+public', kept when the name occurs at most twice
detect_public_functions(lines) ==
    LET txt == Join(lines)
        matches == FindIter(<<One(Tok("function")), Plus(space), Plus(word), One(Tok("(")),
                              Star(Not({")"})), One(Tok(")")), Plus(space), One(Tok("public"))>>,
                            txt, 1)
        function_name(m) == txt[m.start + 1 + Run(space, txt, m.start + 1)]
        occurrences(m) == Cardinality({i \in DOMAIN txt : txt[i] = function_name(m)})
        kept == SelectSeq(matches, LAMBDA m : occurrences(m) <= 2)
    IN [k \in DOMAIN kept |-> optimization("public_function", LineOf(txt, kept[k].start))]

\* r'uint\s+\w+\s*=\s*0;' then r'bool\s+\w+\s*=\s*false;'
detect_redundant_initialization(lines) ==
    Entries("redundant_initialization",
            <<One(Tok("uint")), Plus(space), Plus(word), Star(space), One(Tok("=")), Star(space),
              One(Tok("0")), One(Tok(";"))>>, Join(lines))
      \o Entries("redundant_initialization",
                 <<One(Tok("bool")), Plus(space), Plus(word), Star(space), One(Tok("=")),
                   Star(space), One(Tok("false")), One(Tok(";"))>>, Join(lines))

\* r'string\s+(public\s+|private\s+|internal\s+)?(\w+)': the optional group is
\* itself \w+\s+, so a match starts wherever string\s+\w+ does
detect_string_usage(lines) ==
    Entries("string_usage", <<One(Tok("string")), Plus(space), Plus(word)>>, Join(lines))

\* r'for\s*\([^;]*;\s*\w+\s*<\s*(\w+)\.length'
detect_array_length_in_loops(lines) ==
    Entries("array_length",
            <<One(Tok("for")), Star(space), One(Tok("(")), Star(Not({";"})), One(Tok(";")),
              Star(space), Plus(word), Star(space), One(Tok("<")), Star(space), Plus(word),
              One(Tok(".")), One(Tok("length"))>>, Join(lines))

\* the six checks with two of them exchanged
gas_checks_reordered ==
    <<"storage_in_loops", "public_function", "storage_packing", "redundant_initialization",
      "string_usage", "array_length">>

\* Check 1 .. Check 6, in the order analyze extends optimizations
gas_checks ==
    <<"storage_in_loops", "storage_packing", "public_function", "redundant_initialization",
      "string_usage", "array_length">>

run_check(check, lines) ==
    CASE check = "storage_in_loops" -> detect_storage_in_loops(lines)
      [] check = "storage_packing" -> detect_poor_storage_packing(lines)
      [] check = "public_function" -> detect_public_functions(lines)
      [] check = "redundant_initialization" -> detect_redundant_initialization(lines)
      [] check = "string_usage" -> detect_string_usage(lines)
      [] check = "array_length" -> detect_array_length_in_loops(lines)

\* optimizations after the six extends, the checks of disabled left out
optimizations_of(lines, disabled) ==
    Flatten([k \in DOMAIN gas_checks |->
               IF gas_checks[k] \in disabled THEN <<>> ELSE run_check(gas_checks[k], lines)])

RECURSIVE total_savings(_)
total_savings(opts) ==
    IF opts = <<>> THEN 0 ELSE extract_gas_value(Head(opts).savings) + total_savings(Tail(opts))

\* the returned dictionary; potential_savings is <<n>> for "n gas per transaction"
\* and <<>> for "N/A"
gas_report(opts) ==
    [total_estimated_gas |-> None, optimizations |-> opts,
     potential_savings |-> IF total_savings(opts) > 0 THEN Some(total_savings(opts)) ELSE None]

GasAnalyzer_analyze_without(lines, lang, disabled) ==
    IF lang # "solidity" THEN gas_report(<<>>) ELSE gas_report(optimizations_of(lines, disabled))

GasAnalyzer_analyze(lines, lang) == GasAnalyzer_analyze_without(lines, lang, {})

(***************************************************************************)
(* services/detectors/integer_overflow_detector.py:                        *)
(* IntegerOverflowDetector.detect                                          *)
(***************************************************************************)
\* r'pragma\s+solidity\s+[\^~]?(\d+\.\d+\.\d+)'
version_pattern ==
    <<One(Tok("pragma")), Plus(space), One(Tok("solidity")), Plus(space),
      Opt(Class({"^", "~"}, FALSE)), Plus(digit), One(Tok(".")), Plus(digit), One(Tok(".")),
      Plus(digit)>>

\* int(...) of one component of the version
IntOf(t) == CHOOSE n \in 0..9 : ToString(n) = t

\* major > 0 or (major == 0 and minor >= 8), on the first match of version_pattern
overflow_protected(txt) ==
    LET version_match == FindIter(version_pattern, txt, 1)
    IN /\ version_match # <<>>
       /\ LET e == version_match[1].end
              major == IntOf(txt[e - 5])
              minor == IntOf(txt[e - 3])
          IN major > 0 \/ (major = 0 /\ minor >= 8)

\* r'unchecked\s*\{'
unchecked_pattern == <<One(Tok("unchecked")), Star(space), One(Tok("{"))>>

compound(op) == <<Plus(word), Star(space), One(Tok(op)), One(Tok("=")), Star(space), Plus(word)>>
binary(op) ==
    <<Plus(word), Star(space), One(Tok("=")), Star(space), Plus(word), Star(space),
      One(Tok(op)), Star(space), Plus(word)>>

arithmetic_patterns ==
    <<[pattern |-> compound("+"), operation |-> "addition"],
      [pattern |-> compound("-"), operation |-> "subtraction"],
      [pattern |-> compound("*"), operation |-> "multiplication"],
      [pattern |-> binary("+"), operation |-> "addition"],
      [pattern |-> binary("-"), operation |-> "subtraction"],
      [pattern |-> binary("*"), operation |-> "multiplication"]>>

\* 'SafeMath' in code or 'using SafeMath for' in code
uses_safemath(txt) == Contains(txt, <<"SafeMath">>)

\* '//' in line and line.index('//') < match.start() - line_start, for the line
\* of the match; the line ends at the next newline, or one character before the
\* end of the text when there is none
in_comment(txt, m) ==
    LET before == {j \in 1..(m.start - 1) : txt[j] = NL}
        line_start == IF before = {} THEN 1 ELSE (CHOOSE j \in before : \A k \in before : k <= j) + 1
        newline == Find(txt, NL, m.start)
        line_end == IF newline = 0 THEN Len(txt) - 1 ELSE newline - 1
    IN \E j \in line_start..(line_end - 1) :
          txt[j] = "/" /\ txt[j + 1] = "/" /\ j < m.start

\* the inner loop over the matches of one arithmetic pattern: matches in a
\* comment are skipped, and the loop breaks after the first finding
overflow_reports(txt, p) ==
    LET det == "IntegerOverflowDetector"
        matches == SelectSeq(FindIter(p.pattern, txt, 1), LAMBDA m : ~in_comment(txt, m))
    IN IF matches = <<>> THEN <<>>
       ELSE <<create_finding_at(det, LineOf(txt, matches[1].start)) @@ [operation |-> p.operation]>>

IntegerOverflowDetector_detect(lines, lang) ==
    IF lang # "solidity" THEN <<>>
    ELSE LET txt == Join(lines)
             det == "IntegerOverflowDetector"
             unchecked == FindIter(unchecked_pattern, txt, 1)
         IN IF overflow_protected(txt)
               THEN [k \in DOMAIN unchecked |->
                       [create_finding_at(det, LineOf(txt, unchecked[k].start))
                          EXCEPT !.severity = "medium"]]
               ELSE IF uses_safemath(txt) THEN <<>>
               ELSE Flatten([k \in DOMAIN arithmetic_patterns |->
                               overflow_reports(txt, arithmetic_patterns[k])])

(***************************************************************************)
(* utils/ast_utils.py: extract_functions, find_external_calls              *)
(***************************************************************************)
\* r'function\s+(\w+)\s*\([^)]*\)\s*(public|private|internal|external)?'
extract_pattern ==
    <<One(Tok("function")), Plus(space), Plus(word), Star(space), One(Tok("(")),
      Star(Not({")"})), One(Tok(")")), Star(space), Opt(Class(visibilities, FALSE))>>

\* the function descriptors of the matches of extract_pattern
function_matches(lines) ==
    LET txt == Join(lines)
        matches == FindIter(extract_pattern, txt, 1)
    IN [k \in DOMAIN matches |->
          LET m == matches[k]
          IN [name |-> txt[m.start + 1 + Run(space, txt, m.start + 1)],
              visibility |-> IF txt[m.end - 1] \in visibilities THEN txt[m.end - 1] ELSE "public",
              line |-> LineOf(txt, m.start),
              signature |-> SubSeq(txt, m.start, m.end - 1)]]

\* the extraction run whatever the language
extract_functions_any_language(lines, lang) == function_matches(lines)

extract_functions(lines, lang) ==
    IF lang = "solidity" THEN function_matches(lines) ELSE <<>>

\* get_line_context(code, line_number, context_lines)
get_line_context(lines, line_number, context_lines) ==
    SubSeq(lines, IF line_number - context_lines < 1 THEN 1 ELSE line_number - context_lines,
           Min(Len(lines), line_number + context_lines))

external_call_kinds ==
    <<[pattern |-> Lit(<<".", "call", "{">>), type |-> "call"],
      [pattern |-> Lit(<<".", "call", "(">>), type |-> "call"],
      [pattern |-> Lit(<<".", "delegatecall", "(">>), type |-> "delegatecall"],
      [pattern |-> Lit(<<".", "send", "(">>), type |-> "send"],
      [pattern |-> Lit(<<".", "transfer", "(">>), type |-> "transfer"]>>

find_external_calls(lines, lang) ==
    IF lang # "solidity" THEN <<>>
    ELSE LET txt == Join(lines)
         IN Flatten([k \in DOMAIN external_call_kinds |->
               LET matches == FindIter(external_call_kinds[k].pattern, txt, 1)
               IN [j \in DOMAIN matches |->
                     [type |-> external_call_kinds[k].type,
                      line |-> LineOf(txt, matches[j].start),
                      context |-> get_line_context(lines, LineOf(txt, matches[j].start), 3)]]])

(***************************************************************************)
(* services/analyzers/static_analyzer.py: StaticAnalyzer.analyze on a      *)
(* source text                                                             *)
(***************************************************************************)
detect_on(det, lines, lang) ==
    CASE det = "ReentrancyDetector" -> ReentrancyDetector_detect(lines, lang)
      [] det = "AccessControlDetector" -> AccessControlDetector_detect(lines, lang)
      [] det = "IntegerOverflowDetector" -> IntegerOverflowDetector_detect(lines, lang)
      [] det = "UncheckedCallDetector" -> UncheckedCallDetector_detect(lines, lang)
      [] det = "TxOriginDetector" -> TxOriginDetector_detect(lines, lang)

StaticAnalyzer_analyze(lines, lang) ==
    IF lang \notin {"solidity", "vyper"} THEN <<>>
    ELSE Flatten([k \in DOMAIN detectors |-> detect_on(detectors[k], lines, lang)])

(***************************************************************************)
(* Source lines and the sources the text functions are applied to          *)
(***************************************************************************)
blank_line == <<>>
comment_line == <<"/", "/", " ", "note">>
emit_line == <<"emit", " ", "Sent", "(", "amount", ")", ";">>
close_brace == <<"}">>
else_line == <<"}", " ", "else", " ", "{">>
call_line == <<"msg", ".", "sender", ".", "call", "(", "\"", "\"", ")", ";">>
transfer_line == <<"to", ".", "transfer", "(", "amount", ")", ";">>
write_line == <<"balances", "[", "msg", ".", "sender", "]", " ", "=", " ", "0", ";">>
write_key_line == <<"balances", "[", "to", "]", "=", "0", ";">>
local_assign_line == <<"uint", " ", "x", " ", "=", " ", "1", ";">>
Indented(line) == <<" ", " ">> \o line

\* function name() <modifiers> {
fn_header(name, modifiers) == <<"function", " ", name, "(", ")", " ">> \o modifiers \o <<"{">>

Repeat(line, n) == [i \in 1..n |-> line]

\* filler lines between the call and what follows it
MaxGap == 10

ReentrancySources ==
    {<<fn_header("withdraw", <<"public", " ">>), call>> \o before \o Repeat(filler, g) \o after
        \o <<write, close_brace>> :
       call \in {call_line, Indented(transfer_line), emit_line},
       filler \in {blank_line, Indented(emit_line)},
       g \in 0..MaxGap,
       before \in {<<>>, <<close_brace>>},
       after \in {<<>>, <<Indented(else_line)>>, <<local_assign_line>>,
                  <<fn_header("deposit", <<"external", " ", "payable", " ">>)>>},
       write \in {write_line, Indented(write_key_line), emit_line}}

capture_call_line ==
    <<"(", "bool", " ", "success", ",", " ", ")", " ", "=", " ",
      "target", ".", "call", "(", "\"", "\"", ")", ";">>
bool_send_line == <<"bool", " ", "ok", " ", "=", " ", "to", ".", "send", "(", "amount", ")", ";">>
require_call_line == <<"require", "(", "to", ".", "send", "(", "amount", ")", ")", ";">>
require_success_line == <<"require", "(", "success", ",", " ", "\"", "failed", "\"", ")", ";">>
assert_line == <<"assert", "(", "success", ")", ";">>
if_line == <<"if", "(", "!", "success", ")", " ", "revert", "(", ")", ";">>
if_blank_line == <<"if", " ", "(", "!", "success", ")", " ", "revert", "(", ")", ";">>

UncheckedCallSources ==
    {<<fn_header("pay", <<"public", " ">>), call>> \o Repeat(filler, g) \o <<check, close_brace>> :
       call \in {capture_call_line, Indented(capture_call_line), bool_send_line,
                 call_line, require_call_line, <<"/", "/", " ">> \o call_line},
       filler \in {blank_line, Indented(emit_line)},
       g \in 0..MaxGap,
       check \in {require_success_line, Indented(assert_line), if_line, if_blank_line,
                  emit_line}}

require_tx_origin == <<"require", "(", "tx", ".", "origin", " ", "=", "=", " ", "owner", ")", ";">>

TxOriginLines ==
    {require_tx_origin, Indented(require_tx_origin),
     <<"if", " ", "(", "tx", ".", "origin", " ", "!", "=", " ", "admin", ")", " ", "{">>,
     <<"bool", " ", "ok", " ", "=", " ", "tx", ".", "origin", "=", "=", "admin", ";">>,
     <<"address", " ", "a", " ", "=", " ", "tx", ".", "origin", ";">>,
     require_tx_origin \o <<" ">> \o require_tx_origin,
     <<"require", "(", "msg", ".", "sender", " ", "=", "=", " ", "owner", ")", ";">>}

TxOriginSources ==
    {before \o <<first, second>> \o after :
       before \in {<<>>, <<fn_header("set", <<"public", " ">>)>>},
       first \in TxOriginLines, second \in TxOriginLines,
       after \in {<<>>, <<close_brace>>}}

contract_line == <<"contract", " ", "Vault", " ", "{">>
set_owner_line == Indented(<<"owner", " ", "=", " ", "msg", ".", "sender", ";">>)
guarded_init_line ==
    Indented(<<"require", "(", "!", "_initialized", ")", ";", " ", "_initialized", " ", "=", " ",
               "true", ";">>)
selfdestruct_line == Indented(<<"selfdestruct", "(", "owner", ")", ";">>)
checked_selfdestruct_line ==
    Indented(<<"require", "(", "msg", ".", "sender", " ", "=", "=", " ", "owner", ")", ";", " ",
               "selfdestruct", "(", "owner", ")", ";">>)
mint_in_block_line ==
    Indented(<<"if", " ", "(", "amount", " ", ">", " ", "0", ")", " ", "{", " ",
               "_mint", "(", "to", ",", " ", "amount", ")", ";", " ", "}">>)

\* a contract of two functions, each a header line, one body line and a closing brace
AccessControlSources ==
    {<<contract_line>> \o (IF init_first THEN init \o crit ELSE crit \o init) \o <<close_brace>> :
       init_first \in BOOLEAN,
       init \in {<<fn_header(name, modifiers), body, close_brace>> :
                   name \in {"initialize", "setup", "start"},
                   modifiers \in {<<"public", " ">>, <<"external", " ">>, <<"internal", " ">>,
                                  <<"public", " ", "initializer", " ">>},
                   body \in {set_owner_line, guarded_init_line}},
       crit \in {<<fn_header("close", modifiers), body, close_brace>> :
                   modifiers \in {<<"public", " ">>, <<"public", " ", "onlyOwner", " ">>,
                                  <<"public", " ", "view", " ">>, <<>>},
                   body \in {selfdestruct_line, checked_selfdestruct_line, mint_in_block_line,
                             Indented(emit_line)}}}

\* emit Log("{");  a brace inside a string literal
open_brace_text_line == Indented(<<"emit", " ", "Log", "(", "\"", "{", "\"", ")", ";">>)
close_brace_text_line == Indented(<<"emit", " ", "Log", "(", "\"", "}", "\"", ")", ";">>)

\* two functions one after the other; the body of the first may hold a brace
\* in a string literal or a nested block
TwoFunctionSources ==
    {<<fn_header("note", <<"public", " ">>), first, close_brace,
       fn_header("kill", modifiers), second, close_brace>> :
       first \in {Indented(emit_line), open_brace_text_line, close_brace_text_line,
                  mint_in_block_line},
       modifiers \in {<<"public", " ">>, <<"public", " ", "onlyOwner", " ">>},
       second \in {selfdestruct_line, Indented(emit_line)}}

length_loop_line ==
    <<"for", " ", "(", "uint", " ", "i", " ", "=", " ", "0", ";", " ", "i", " ", "<", " ",
      "items", ".", "length", ";", " ", "i", "+", "+", ")", " ", "{">>
plain_loop_line ==
    <<"for", "(", "uint", " ", "i", " ", "=", " ", "1", ";", " ", "i", " ", "<", " ", "n", ";",
      " ", "i", "+", "+", ")", " ", "{">>
storage_read_line == Indented(<<"total", " ", "+", "=", " ", "balances", "[", "i", "]", ";">>)

storage_keyword_line ==
    Indented(<<"uint", "[", "]", " ", "storage", " ", "list", " ", "=", " ", "items", ";">>)

\* one loop whose body reaches the line after the fillers on line L+5 .. L+5+MaxGap
StorageLoopSources ==
    {<<fn_header("sum", <<"public", " ">>), loop>> \o Repeat(filler, g + 4)
        \o <<last, close_brace>> :
       loop \in {length_loop_line, plain_loop_line},
       filler \in {blank_line, Indented(emit_line)},
       g \in 0..MaxGap,
       last \in {storage_read_line, storage_keyword_line, Indented(emit_line)}}

\* state variables and one function, built from the idioms the heuristics look for
GasFieldSources ==
    {(IF named THEN <<<<"string", " ", "public", " ", "name", ";">>>> ELSE <<>>)
        \o (IF flagged THEN <<<<"bool", " ", "done", " ", "=", " ", "false", ";">>>> ELSE <<>>)
        \o (IF packed THEN <<<<"uint256", " ", "big", ";">>, <<"uint8", " ", "small", ";">>>>
                      ELSE <<<<"uint256", " ", "big", ";">>>>)
        \o <<fn_header("sum", <<visibility, " ">>)>>
        \o loop
        \o (IF reads THEN <<storage_read_line>> ELSE <<Indented(emit_line)>>)
        \o Repeat(<<"sum", "(", ")", ";">>, calls)
        \o <<close_brace>> :
       named \in BOOLEAN, flagged \in BOOLEAN, packed \in BOOLEAN,
       visibility \in {"public", "external"},
       loop \in {<<>>, <<length_loop_line>>, <<plain_loop_line>>},
       reads \in BOOLEAN, calls \in {0, 2}}

GasSources == GasFieldSources \cup StorageLoopSources

\* pragma solidity <version>; with the version bare, or after ^ or >=
pragma_line(caret, version) ==
    <<"pragma", " ", "solidity", " ">> \o caret
      \o <<version[1], ".", version[2], ".", version[3], ";">>
add_assign_line == Indented(<<"total", " ", "+", "=", " ", "amount", ";">>)
sum_line == Indented(<<"total", " ", "=", " ", "total", " ", "+", " ", "amount", ";">>)
two_operations_line ==
    Indented(<<"total", " ", "+", "=", " ", "amount", ";", " ", "left", " ", "-", "=", " ",
               "amount", ";">>)
commented_arithmetic_line == Indented(<<"/", "/", " ", "total", " ", "+", "=", " ", "amount">>)
unchecked_line == Indented(<<"unchecked", " ", "{", " ", "i", " ", "+", "=", " ", "1", ";", " ", "}">>)
safemath_line == Indented(<<"using", " ", "SafeMath", " ", "for", " ", "uint256", ";">>)

\* an optional version pragma and one function of one or two statements
IntegerOverflowSources ==
    {pragma \o <<fn_header("add", <<"public", " ">>)>> \o body \o <<close_brace>> :
       pragma \in {<<>>}
                    \cup {<<pragma_line(caret, version)>> :
                            caret \in {<<>>, <<"^">>, <<">", "=">>},
                            version \in {<<"0", "7", "6">>, <<"0", "8", "0">>, <<"1", "0", "0">>}},
       body \in SeqsUpTo({add_assign_line, sum_line, two_operations_line,
                          commented_arithmetic_line, unchecked_line, safemath_line,
                          Indented(call_line), Indented(require_tx_origin)}, 2) \ {<<>>}}

(***************************************************************************)
(* Text harness: one function applied to one source                        *)
(***************************************************************************)
Sources == ReentrancySources \cup UncheckedCallSources \cup TxOriginSources
             \cup AccessControlSources \cup GasSources \cup IntegerOverflowSources
             \cup TwoFunctionSources

InitText ==
    /\ code \in Sources
    /\ language \in Languages
    /\ out = None
    /\ histogram = <<>> /\ score = None /\ rating = None
    /\ detect_outcome = <<>> /\ extract_ok = TRUE
    /\ analyze_pc = "idle" /\ det_idx = 1 /\ findings = <<>> /\ result = None
    /\ db = <<>> /\ vulnerability_rows = <<>> /\ task = <<>>
    /\ client = FALSE /\ response = None /\ ai_pc = "idle" /\ ai_result = None

Applied(fn, value) == Some([fn |-> fn, value |-> value])

DetectReentrancy ==
    /\ out = None
    /\ code \in ReentrancySources
    /\ out' = Applied("ReentrancyDetector.detect", ReentrancyDetector_detect(code, language))
    /\ UNCHANGED <<code, scoring_vars, static_vars, pipeline_vars, ai_vars>>

DetectUncheckedCall ==
    /\ out = None
    /\ code \in UncheckedCallSources
    /\ out' = Applied("UncheckedCallDetector.detect", UncheckedCallDetector_detect(code, language))
    /\ UNCHANGED <<code, scoring_vars, static_vars, pipeline_vars, ai_vars>>

DetectTxOrigin ==
    /\ out = None
    /\ code \in TxOriginSources
    /\ out' = Applied("TxOriginDetector.detect", TxOriginDetector_detect(code, language))
    /\ UNCHANGED <<code, scoring_vars, static_vars, pipeline_vars, ai_vars>>

\* the detector rerun on the source with tx.origin replaced on line n
DetectTxOriginReplaced ==
    /\ out = None
    /\ code \in TxOriginSources
    /\ \E n \in DOMAIN code :
          /\ Contains(code[n], tx_origin)
          /\ out' = Applied("TxOriginDetector.detect, replaced",
                            [line |-> n,
                             findings |-> TxOriginDetector_detect(
                                            [code EXCEPT ![n] = replace_tx_origin(code[n])],
                                            language)])
    /\ UNCHANGED <<code, scoring_vars, static_vars, pipeline_vars, ai_vars>>

DetectAccessControl ==
    /\ out = None
    /\ code \in AccessControlSources \cup TwoFunctionSources
    /\ out' = Applied("AccessControlDetector.detect", AccessControlDetector_detect(code, language))
    /\ UNCHANGED <<code, scoring_vars, static_vars, pipeline_vars, ai_vars>>

\* GasAnalyzer.analyze, as it is and with one of its six checks disabled
AnalyzeGas ==
    /\ out = None
    /\ code \in GasSources
    /\ \E disabled \in {{}} \cup {{gas_checks[k]} : k \in DOMAIN gas_checks} :
          out' = Applied("GasAnalyzer.analyze",
                         [disabled |-> disabled,
                          report |-> GasAnalyzer_analyze_without(code, language, disabled)])
    /\ UNCHANGED <<code, scoring_vars, static_vars, pipeline_vars, ai_vars>>

DetectIntegerOverflow ==
    /\ out = None
    /\ code \in IntegerOverflowSources
    /\ out' = Applied("IntegerOverflowDetector.detect", IntegerOverflowDetector_detect(code, language))
    /\ UNCHANGED <<code, scoring_vars, static_vars, pipeline_vars, ai_vars>>

ExtractFunctions ==
    /\ out = None
    /\ code \in AccessControlSources \cup IntegerOverflowSources
    /\ out' = Applied("extract_functions", extract_functions(code, language))
    /\ UNCHANGED <<code, scoring_vars, static_vars, pipeline_vars, ai_vars>>

FindExternalCalls ==
    /\ out = None
    /\ code \in UncheckedCallSources \cup IntegerOverflowSources
    /\ out' = Applied("find_external_calls", find_external_calls(code, language))
    /\ UNCHANGED <<code, scoring_vars, static_vars, pipeline_vars, ai_vars>>

AnalyzeStatic ==
    /\ out = None
    /\ code \in IntegerOverflowSources \cup TxOriginSources \cup AccessControlSources
    /\ out' = Applied("StaticAnalyzer.analyze", StaticAnalyzer_analyze(code, language))
    /\ UNCHANGED <<code, scoring_vars, static_vars, pipeline_vars, ai_vars>>

(***************************************************************************)
(* services/ai/reasoning_engine.py: AIReasoningEngine                      *)
(*                                                                         *)
(* A response text is a sequence of elements: a character, a code fence,   *)
(* or one whole JSON value.  A JSON object is a function from its keys.    *)
(***************************************************************************)
Ch(c) == [ch |-> c]
Js(v) == [json |-> v]
\* the opening fence of a json code block, and the bare fence of three backticks
FenceJson == [fence |-> "json"]
Fence == [fence |-> ""]

JsonNull == "null"                        \* JSON null, Python None
JsonList == [type |-> "list"]             \* a JSON value that is no object
JsonDict(fields) == [type |-> "dict", fields |-> fields]

Field(key, option) == IF option = None THEN NoAttrs ELSE [k \in {key} |-> option[1]]

\* dict.get(key, default)
Get(dict, key, default) == IF key \in DOMAIN dict THEN dict[key] ELSE default

\* str.lower() over the labels a response may carry
lower(label) ==
    CASE label = "High" -> "high"
      [] label = "Severe" -> "severe"
      [] label = "Easy" -> "easy"
      [] OTHER -> label

\* str.strip()
RECURSIVE strip(_)
strip(text) ==
    IF text # <<>> /\ Head(text) = Ch(" ") THEN strip(Tail(text))
    ELSE IF text # <<>> /\ text[Len(text)] = Ch(" ") THEN strip(SubSeq(text, 1, Len(text) - 1))
    ELSE text

\* response_text[json_start:json_end].strip(); json_end is -1 without a closing
\* fence, which drops the last character of the text
between_fences(text, opening) ==
    LET json_start == Find(text, opening, 1) + 1
        json_end == Find(text, Fence, json_start)
    IN strip(SubSeq(text, json_start, IF json_end = 0 THEN Len(text) - 1 ELSE json_end - 1))

\* Try to extract JSON from code blocks if present
extract_json_text(text) ==
    IF Find(text, FenceJson, 1) # 0 THEN between_fences(text, FenceJson)
    ELSE IF Find(text, Fence, 1) # 0 THEN between_fences(text, Fence)
    ELSE text

\* json.loads: the text is one JSON value, blanks around it allowed
json_loads(text) ==
    LET t == strip(text)
    IN IF Len(t) = 1 /\ "json" \in DOMAIN t[1]
          THEN [raises |-> FALSE, value |-> t[1].json]
          ELSE [raises |-> TRUE]

\* response_text[:500]
SummaryLimit == 500

\* the except json.JSONDecodeError branch
fallback_result(response_text) ==
    JsonDict([summary |-> SubSeq(response_text, 1, Min(SummaryLimit, Len(response_text))),
              overall_risk |-> "medium", vulnerabilities |-> <<>>, gas_optimizations |-> <<>>])

\* vuln.get("severity", "info").lower()
normalize_severity(label) == lower(label)

normalize_vulnerability(vuln, n) ==
    [rule_id |-> Get(vuln, "rule_id", <<"AI", n>>),
     severity |-> normalize_severity(Get(vuln, "severity", "info")),
     exploitability |-> lower(Get(vuln, "exploitability", "moderate")),
     category |-> Get(vuln, "category", "security"),
     detected_by |-> "ai",
     confidence |-> Get(vuln, "confidence", 85)]

\* where _normalize_response raises: .get on a value that is no dict, .lower()
\* on None
normalize_raises(analysis_result) ==
    \/ analysis_result.type # "dict"
    \/ LET fields == analysis_result.fields
           vulns == Get(fields, "vulnerabilities", <<>>)
       IN \/ Get(fields, "overall_risk", "unknown") = JsonNull
          \/ \E i \in DOMAIN vulns :
                \/ Get(vulns[i], "severity", "info") = JsonNull
                \/ Get(vulns[i], "exploitability", "moderate") = JsonNull

normalize_response(analysis_result) ==
    LET fields == analysis_result.fields
        vulns == Get(fields, "vulnerabilities", <<>>)
    IN [summary |-> Get(fields, "summary", <<>>),
        overall_risk |-> lower(Get(fields, "overall_risk", "unknown")),
        vulnerabilities |-> [i \in DOMAIN vulns |-> normalize_vulnerability(vulns[i], i)],
        gas_optimizations |-> Get(fields, "gas_optimizations", <<>>),
        architectural_issues |-> Get(fields, "architectural_issues", <<>>),
        logic_flaws |-> Get(fields, "logic_flaws", <<>>),
        best_practice_violations |-> Get(fields, "best_practice_violations", <<>>)]

empty_result(summary) ==
    [summary |-> summary, overall_risk |-> "unknown", vulnerabilities |-> <<>>,
     gas_optimizations |-> <<>>, architectural_issues |-> <<>>, logic_flaws |-> <<>>,
     best_practice_violations |-> <<>>]

\* if not self.client: return {...}
not_available == empty_result(<<Ch("AI analysis not available - API key not configured")>>)

\* except Exception as e: return {"summary": f"AI analysis failed: {str(e)}", ...}
analysis_failed == empty_result(<<Ch("AI analysis failed: "), Ch("str(e)")>>)

(***************************************************************************)
(* AIReasoningEngine.analyze, step by step, on one response                *)
(***************************************************************************)
RawVulnerabilities ==
    {Field("severity", sv) @@ Field("exploitability", ex) @@ Field("confidence", cf) :
       sv \in {None, Some("High"), Some("critical"), Some("Severe"), Some(JsonNull)},
       ex \in {None, Some("Easy")},
       cf \in {None, Some(70)}}

JsonValues ==
    {JsonList}
      \cup {JsonDict(Field("summary", sm) @@ Field("overall_risk", risk)
                       @@ Field("vulnerabilities", vs)) :
              sm \in {None, Some(<<Ch("s")>>)},
              risk \in {None, Some("High"), Some(JsonNull)},
              vs \in {None} \cup {Some(l) : l \in SeqsUpTo(RawVulnerabilities, MaxAIFindings)}}

Chars(n) == [i \in 1..n |-> Ch("x")]

ResponseTexts ==
    {Chars(n) : n \in {0, 3, SummaryLimit, SummaryLimit + 1}}
      \cup {<<Ch("x"), FenceJson, Ch("x"), Ch("x"), Fence, Ch("x")>>,
            <<Fence, Ch(" "), Ch("x"), Ch(" "), Fence>>,
            <<FenceJson, Ch("x"), Ch("x")>>}
      \cup UNION {{<<Js(v)>>, <<Ch(" "), Js(v), Ch(" ")>>, <<Js(v), Ch("x")>>,
                   <<Ch("x"), FenceJson, Ch(" "), Js(v), Ch(" "), Fence, Ch("x")>>,
                   <<Fence, Js(v), Fence>>, <<Fence, Js(v), Ch(" ")>>} : v \in JsonValues}

\* client.messages.create raises, returns no content block, or returns a text
Responses ==
    {[kind |-> "error"], [kind |-> "empty"]} \cup {[kind |-> "text", text |-> t] : t \in ResponseTexts}

InitAI ==
    /\ client \in BOOLEAN
    /\ response \in {Some(r) : r \in Responses}
    /\ ai_pc = "start"
    /\ ai_result = None
    /\ histogram = <<>> /\ score = None /\ rating = None
    /\ language = "solidity" /\ detect_outcome = <<>> /\ extract_ok = TRUE
    /\ analyze_pc = "idle" /\ det_idx = 1 /\ findings = <<>> /\ result = None
    /\ db = <<>> /\ vulnerability_rows = <<>> /\ task = <<>>
    /\ code = <<>> /\ out = None

\* if not self.client: return the not-available structure
AnalyzeWithoutClient ==
    /\ ai_pc = "start" /\ ~client
    /\ ai_pc' = "returned"
    /\ ai_result' = Some(not_available)
    /\ UNCHANGED <<client, response, scoring_vars, static_vars, pipeline_vars, text_vars>>

\* response = self.client.messages.create(...); response_text = response.content[0].text
CallClient ==
    /\ ai_pc = "start" /\ client
    /\ ai_pc' = IF response[1].kind = "text" THEN "parse" ELSE "except"
    /\ UNCHANGED <<client, response, ai_result, scoring_vars, static_vars, pipeline_vars, text_vars>>

\* analysis_result = json.loads(response_text), or the fallback on JSONDecodeError
ParseResponse ==
    /\ ai_pc = "parse"
    /\ LET response_text == extract_json_text(response[1].text)
           parsed == json_loads(response_text)
       IN ai_result' = Some(IF parsed.raises THEN fallback_result(response_text) ELSE parsed.value)
    /\ ai_pc' = "normalize"
    /\ UNCHANGED <<client, response, scoring_vars, static_vars, pipeline_vars, text_vars>>

\* analysis_result = self._normalize_response(analysis_result); return analysis_result
NormalizeResponse ==
    /\ ai_pc = "normalize"
    /\ IF normalize_raises(ai_result[1])
          THEN ai_pc' = "except" /\ UNCHANGED ai_result
          ELSE ai_pc' = "returned" /\ ai_result' = Some(normalize_response(ai_result[1]))
    /\ UNCHANGED <<client, response, scoring_vars, static_vars, pipeline_vars, text_vars>>

\* except Exception as e: return the analysis-failed structure
AnalyzeExcept ==
    /\ ai_pc = "except"
    /\ ai_pc' = "returned"
    /\ ai_result' = Some(analysis_failed)
    /\ UNCHANGED <<client, response, scoring_vars, static_vars, pipeline_vars, text_vars>>

(***************************************************************************)
(* api/routes/audit.py: the database, and process_audit_task               *)
(***************************************************************************)
AuditIds == {"a1"}

Stages == {"static", "ai", "gas"}

\* models/audit.py: the column defaults of a row created by create_audit
NewAudit ==
    [status |-> "pending", error_message |-> None,
     critical_count |-> 0, high_count |-> 0, medium_count |-> 0,
     low_count |-> 0, info_count |-> 0,
     risk_score |-> 0, security_rating |-> None,
     ai_summary |-> None, ai_overall_risk |-> None, gas_analysis |-> None]

\* request.contract_code and request.language of create_audit
string_source ==
    <<<<"string", " ", "public", " ", "name", ";">>, fn_header("sum", <<"external", " ">>),
      Indented(emit_line), close_brace>>
plain_source == <<fn_header("sum", <<"external", " ">>), Indented(emit_line), close_brace>>

SubmittedSources == {string_source, plain_source}

\* the locals of process_audit_task; language and contract_code are the
\* columns of the loaded audit, client is ai_engine.client, and
\* given_static_findings the static_findings argument of ai_engine.analyze
IdleTask ==
    [pc |-> "none", attrs |-> NoAttrs, added |-> <<>>, vulnerabilities |-> <<>>,
     static_findings |-> None, ai_findings |-> None, gas_results |-> None,
     raised |-> {}, ran |-> <<>>, exc |-> None,
     language |-> "", contract_code |-> <<>>, client |-> FALSE, api_called |-> FALSE,
     given_static_findings |-> None]

Init ==
    /\ db = [a \in {} |-> NewAudit]
    /\ vulnerability_rows = [a \in AuditIds |-> <<>>]
    /\ task = [a \in AuditIds |-> IdleTask]
    /\ histogram = <<>> /\ score = None /\ rating = None
    /\ language = "solidity" /\ detect_outcome = <<>> /\ extract_ok = TRUE
    /\ analyze_pc = "idle" /\ det_idx = 1 /\ findings = <<>> /\ result = None
    /\ code = <<>> /\ out = None
    /\ client = FALSE /\ response = None /\ ai_pc = "idle" /\ ai_result = None

\* Inputs of the three stages
AllStaticFindings == UNION {DetectorFindings(detectors[i]) : i \in DOMAIN detectors}

DetectorIndex(rid) == CHOOSE i \in DOMAIN detectors : rule_id[detectors[i]] = rid

InRegistrationOrder(fs) ==
    \A i, j \in DOMAIN fs :
        i < j => DetectorIndex(fs[i].rule_id) <= DetectorIndex(fs[j].rule_id)

StaticResults ==
    {fs \in SeqsUpTo(AllStaticFindings, MaxStaticFindings) : InRegistrationOrder(fs)}

\* A vulnerability record as AIReasoningEngine returns it: the severity is
\* whatever lower-cased string the collaborator supplied.
AISeverities == Severities \cup {"severe"}

AIVulnerability(sv) ==
    [rule_id |-> "AI-1", severity |-> sv, category |-> "security",
     detected_by |-> "ai", confidence |-> 85]

\* what analyze returns when the engine has a client
AIResults ==
    {analysis_failed}
      \cup {[empty_result(<<Ch("summary")>>) EXCEPT !.overall_risk = "medium",
                                                    !.vulnerabilities = vs] :
              vs \in SeqsUpTo({AIVulnerability(sv) : sv \in AISeverities}, MaxAIFindings)}

\* Session: attribute writes and db.add() stay pending until db.commit()
SetAttrs(t, written) == [t EXCEPT !.attrs = written @@ @]

Rollback(t) == [t EXCEPT !.attrs = NoAttrs, !.added = <<>>]

\* app.models.vulnerability: severity is a column of the five-level enumeration
VulnerabilityAccepted(v) == v.severity \in Severities

\* db.commit() can succeed only if the audits row still exists and every
\* pending vulnerabilities row is accepted; it may fail for any other reason too.
CanCommit(a, t) ==
    /\ a \in DOMAIN db
    /\ \A i \in DOMAIN t.added : VulnerabilityAccepted(t.added[i])

\* a commit whose pending vulnerability rows reach every audit
Committed_shared_rows(a, t) ==
    /\ db' = [db EXCEPT ![a] = t.attrs @@ @]
    /\ vulnerability_rows' = [b \in DOMAIN vulnerability_rows |-> vulnerability_rows[b] \o t.added]

Committed(a, t) ==
    /\ db' = [db EXCEPT ![a] = t.attrs @@ @]
    /\ vulnerability_rows' = [vulnerability_rows EXCEPT ![a] = @ \o t.added]

\* A failed db.commit() rolls the session back: pending writes and adds are gone
CommitFailed(t) == Rollback(t)

\* An exception that reaches "except Exception as e" of process_audit_task
Raise(t, site) == [t EXCEPT !.pc = "handler", !.exc = Some(site)]

\* create_audit: the row is inserted as pending and the background task queued
CreateAudit(a) ==
    /\ task[a].pc = "none"
    /\ \E lang \in Languages, source \in SubmittedSources :
          db' = (a :> ([language |-> lang, contract_code |-> source] @@ NewAudit)) @@ db
    /\ task' = [task EXCEPT ![a].pc = "queued"]
    /\ UNCHANGED <<vulnerability_rows, scoring_vars, static_vars, text_vars, ai_vars>>

\* delete_audit: the row and, by cascade, its vulnerabilities
DeleteAudit(a) ==
    /\ a \in DOMAIN db
    /\ db' = [x \in DOMAIN db \ {a} |-> db[x]]
    /\ vulnerability_rows' = [vulnerability_rows EXCEPT ![a] = <<>>]
    /\ UNCHANGED <<task, scoring_vars, static_vars, text_vars, ai_vars>>

\* db.query(Audit)...first() raises: the handler reads the unbound local audit
\* and raises itself; the exception leaves the task.
LoadRaises(a) ==
    /\ task[a].pc = "queued"
    /\ task' = [task EXCEPT ![a].pc = "crashed", ![a].exc = Some("load")]
    /\ UNCHANGED <<db, vulnerability_rows, scoring_vars, static_vars, text_vars, ai_vars>>

\* if not audit: logger.error(...); return
AuditNotFound(a) ==
    /\ task[a].pc = "queued"
    /\ a \notin DOMAIN db
    /\ task' = [task EXCEPT ![a].pc = "returned"]
    /\ UNCHANGED <<db, vulnerability_rows, scoring_vars, static_vars, text_vars, ai_vars>>

\* audit.status = AuditStatus.PROCESSING
ProcessingAttrs_unset == NoAttrs

ProcessingAttrs == [status |-> "processing"]

\* audit = db.query(Audit)...first(); the status write
Pickup(a) ==
    /\ task[a].pc = "queued"
    /\ a \in DOMAIN db
    /\ task' = [task EXCEPT ![a] = [SetAttrs(@, ProcessingAttrs)
                                      EXCEPT !.pc = "commit_processing",
                                             !.language = db[a].language,
                                             !.contract_code = db[a].contract_code]]
    /\ UNCHANGED <<db, vulnerability_rows, scoring_vars, static_vars, text_vars, ai_vars>>

\* db.commit() after the status write
CommitProcessing(a) ==
    /\ task[a].pc = "commit_processing"
    /\ \E ok \in BOOLEAN :
         IF ok
            THEN /\ CanCommit(a, task[a])
                 /\ Committed(a, task[a])
                 /\ task' = [task EXCEPT ![a] = [Rollback(@) EXCEPT !.pc = "init"]]
            ELSE /\ task' = [task EXCEPT ![a] = Raise(CommitFailed(@), "commit_processing")]
                 /\ UNCHANGED <<db, vulnerability_rows>>
    /\ UNCHANGED <<scoring_vars, static_vars, text_vars, ai_vars>>

\* StaticAnalyzer(), AIReasoningEngine(), GasAnalyzer(); vulnerabilities = []
InitAnalyzers(a) ==
    /\ task[a].pc = "init"
    /\ \E ok \in BOOLEAN, api_key \in BOOLEAN :
         task' = [task EXCEPT ![a] =
                    IF ok THEN [@ EXCEPT !.pc = "static", !.vulnerabilities = <<>>,
                                         !.client = api_key]
                    ELSE Raise(@, "init_analyzers")]
    /\ UNCHANGED <<db, vulnerability_rows, scoring_vars, static_vars, text_vars, ai_vars>>

\* except Exception as e: logger.error("... failed") of one stage
StageError_propagates(t, stage, next) ==
    [Raise(t, stage) EXCEPT !.ran = Append(@, stage)]

StageError(t, stage, next) ==
    [t EXCEPT !.raised = @ \cup {stage}, !.ran = Append(@, stage), !.pc = next]

\* what static_analyzer.analyze(code, language=audit.language.value) can return
static_outcomes(t) == IF t.language = "solidity" THEN StaticResults ELSE {<<>>}

\* static_findings = static_analyzer.analyze(...); vulnerabilities.extend(static_findings)
StaticStage(a) ==
    /\ task[a].pc = "static"
    /\ \/ \E fs \in static_outcomes(task[a]) :
            task' = [task EXCEPT ![a] =
                       [@ EXCEPT !.static_findings = Some(fs),
                                 !.vulnerabilities = extend(@, fs),
                                 !.ran = Append(@, "static"),
                                 !.pc = "ai"]]
       \/ task' = [task EXCEPT ![a] = StageError(@, "static", "ai")]
    /\ UNCHANGED <<db, vulnerability_rows, scoring_vars, static_vars, text_vars, ai_vars>>

\* analyze with a client, whether or not a credential was configured
ai_outcomes_ignoring_client(t) == AIResults

\* ai_engine.analyze: without a client the not-available structure, and no call
\* of client.messages.create
ai_outcomes(t) == IF t.client THEN AIResults ELSE {not_available}

\* ai_findings = ai_engine.analyze(..., static_findings=vulnerabilities);
\* vulnerabilities.extend(ai_findings.get("vulnerabilities", []));
\* audit.ai_summary = ...; audit.ai_overall_risk = ...
AIStage(a) ==
    /\ task[a].pc = "ai"
    /\ \/ \E r \in ai_outcomes(task[a]) :
            task' = [task EXCEPT ![a] =
                       [SetAttrs(@, [ai_summary |-> Some(r.summary),
                                     ai_overall_risk |-> Some(r.overall_risk)])
                          EXCEPT !.ai_findings = Some(r),
                                 !.api_called = task[a].client,
                                 !.given_static_findings = Some(task[a].vulnerabilities),
                                 !.vulnerabilities = extend(@, r.vulnerabilities),
                                 !.ran = Append(@, "ai"),
                                 !.pc = "gas"]]
       \/ task' = [task EXCEPT ![a] = StageError(@, "ai", "gas")]
    /\ UNCHANGED <<db, vulnerability_rows, scoring_vars, static_vars, text_vars, ai_vars>>

\* gas_results = gas_analyzer.analyze(audit.contract_code); audit.gas_analysis = gas_results
\* The call passes no language: the parameter takes its default, "solidity".
GasStage(a) ==
    /\ task[a].pc = "gas"
    /\ \/ LET g == GasAnalyzer_analyze(task[a].contract_code, "solidity")
          IN task' = [task EXCEPT ![a] =
                       [SetAttrs(@, [gas_analysis |-> Some(g)])
                          EXCEPT !.gas_results = Some(g),
                                 !.ran = Append(@, "gas"),
                                 !.pc = "persist"]]
       \/ task' = [task EXCEPT ![a] = StageError(@, "gas", "persist")]
    /\ UNCHANGED <<db, vulnerability_rows, scoring_vars, static_vars, text_vars, ai_vars>>

\* severity_counts = {...: 0}; for vuln_data in vulnerabilities:
\*     severity = vuln_data.get("severity", "info")
\*     if severity in severity_counts: severity_counts[severity] += 1
RECURSIVE CountLoop(_, _)
CountLoop(severity_counts, vulns) ==
    IF vulns = <<>> THEN severity_counts
    ELSE LET severity == Head(vulns).severity
         IN CountLoop(IF severity \in DOMAIN severity_counts
                         THEN [severity_counts EXCEPT ![severity] = @ + 1]
                         ELSE severity_counts,
                      Tail(vulns))

count_severities_static_only(vulns) ==
    CountLoop([sv \in Severities |-> 0],
              SelectSeq(vulns, LAMBDA v : v.detected_by = "static"))

count_severities(vulns) == CountLoop([sv \in Severities |-> 0], vulns)

\* audit.critical_count = ... ; audit.risk_score = ...; audit.security_rating = ...;
\* audit.status = AuditStatus.COMPLETED
ResultAttrs(severity_counts) ==
    LET risk_score == calculate_risk_score(severity_counts)
    IN [critical_count |-> severity_counts["critical"],
        high_count |-> severity_counts["high"],
        medium_count |-> severity_counts["medium"],
        low_count |-> severity_counts["low"],
        info_count |-> severity_counts["info"],
        risk_score |-> risk_score,
        security_rating |-> Some(calculate_security_rating(risk_score)),
        status |-> "completed"]

\* the loop that db.add()s one Vulnerability per finding, then the result fields
Persist(a) ==
    /\ task[a].pc = "persist"
    /\ task' = [task EXCEPT ![a] =
                  [SetAttrs(@, ResultAttrs(count_severities(@.vulnerabilities)))
                     EXCEPT !.added = @ \o task[a].vulnerabilities,
                            !.pc = "commit_completed"]]
    /\ UNCHANGED <<db, vulnerability_rows, scoring_vars, static_vars, text_vars, ai_vars>>

\* db.commit() of the completed run
CommitCompleted(a) ==
    /\ task[a].pc = "commit_completed"
    /\ \E ok \in BOOLEAN :
         IF ok
            THEN /\ CanCommit(a, task[a])
                 /\ Committed(a, task[a])
                 /\ task' = [task EXCEPT ![a] = [Rollback(@) EXCEPT !.pc = "done"]]
            ELSE /\ task' = [task EXCEPT ![a] = Raise(CommitFailed(@), "commit_completed")]
                 /\ UNCHANGED <<db, vulnerability_rows>>
    /\ UNCHANGED <<scoring_vars, static_vars, text_vars, ai_vars>>

\* audit.status = AuditStatus.FAILED; audit.error_message = str(e)
FailureAttrs_no_message(e) == [status |-> "failed"]

FailureAttrs(e) == [status |-> "failed", error_message |-> Some(e)]

\* except Exception as e: ...; db.commit(); an exception of this commit leaves the task
Handler(a) ==
    /\ task[a].pc = "handler"
    /\ LET t == SetAttrs(task[a], FailureAttrs(task[a].exc[1]))
       IN \E ok \in BOOLEAN :
            IF ok
               THEN /\ CanCommit(a, t)
                    /\ Committed(a, t)
                    /\ task' = [task EXCEPT ![a] = [Rollback(t) EXCEPT !.pc = "done"]]
               ELSE /\ task' = [task EXCEPT ![a] = [CommitFailed(t) EXCEPT !.pc = "crashed"]]
                    /\ UNCHANGED <<db, vulnerability_rows>>
    /\ UNCHANGED <<scoring_vars, static_vars, text_vars, ai_vars>>

Next ==
    \E a \in AuditIds :
        \/ CreateAudit(a)
        \/ DeleteAudit(a)
        \/ LoadRaises(a)
        \/ AuditNotFound(a)
        \/ Pickup(a)
        \/ CommitProcessing(a)
        \/ InitAnalyzers(a)
        \/ StaticStage(a)
        \/ AIStage(a)
        \/ GasStage(a)
        \/ Persist(a)
        \/ CommitCompleted(a)
        \/ Handler(a)

(***************************************************************************)
(* Two executions of process_audit_task on different audits.  Each has its *)
(* own session, analyzers and locals (audit.py:43-64); the steps of the    *)
(* two interleave freely.  The two runs are given inputs and findings that *)
(* tell them apart.                                                        *)
(***************************************************************************)
PairIds == {"a1", "a2"}

RunInput ==
    [a1 |-> [source |-> string_source, detector |-> "ReentrancyDetector", severity |-> "high"],
     a2 |-> [source |-> plain_source, detector |-> "TxOriginDetector", severity |-> "low"]]

\* a finding that belongs to the run of audit a
OwnFinding(a, v) ==
    IF v.detected_by = "static" THEN v.rule_id = rule_id[RunInput[a].detector]
    ELSE v.severity = RunInput[a].severity

InScope(a) ==
    /\ a \in DOMAIN db =>
          db[a].language = "solidity" /\ db[a].contract_code = RunInput[a].source
    /\ task[a].pc \in {"static", "ai", "gas", "persist", "commit_completed"} => task[a].client
    /\ \A i \in DOMAIN task[a].vulnerabilities : OwnFinding(a, task[a].vulnerabilities[i])
    /\ task[a].static_findings # None => Len(task[a].static_findings[1]) <= 1

InitPair ==
    /\ db = [a \in {} |-> NewAudit]
    /\ vulnerability_rows = [a \in PairIds |-> <<>>]
    /\ task = [a \in PairIds |-> IdleTask]
    /\ histogram = <<>> /\ score = None /\ rating = None
    /\ language = "solidity" /\ detect_outcome = <<>> /\ extract_ok = TRUE
    /\ analyze_pc = "idle" /\ det_idx = 1 /\ findings = <<>> /\ result = None
    /\ code = <<>> /\ out = None
    /\ client = FALSE /\ response = None /\ ai_pc = "idle" /\ ai_result = None

PairScope == \A a \in PairIds : InScope(a)

NextPair ==
    \E a \in PairIds :
        \/ CreateAudit(a) /\ PairScope'
        \/ DeleteAudit(a) /\ PairScope'
        \/ LoadRaises(a) /\ PairScope'
        \/ AuditNotFound(a) /\ PairScope'
        \/ Pickup(a) /\ PairScope'
        \/ CommitProcessing(a) /\ PairScope'
        \/ InitAnalyzers(a) /\ PairScope'
        \/ StaticStage(a) /\ PairScope'
        \/ AIStage(a) /\ PairScope'
        \/ GasStage(a) /\ PairScope'
        \/ Persist(a) /\ PairScope'
        \/ CommitCompleted(a) /\ PairScope'
        \/ Handler(a) /\ PairScope'

(***************************************************************************)
(* Specifications                                                          *)
(***************************************************************************)
NextScoring == ComputeRiskScore \/ ComputeRating

NextStatic ==
    \/ AnalyzeUnsupported
    \/ AnalyzeExtract
    \/ RunDetector
    \/ AnalyzeReturn
    \/ AnalyzeOuterExcept

NextText ==
    \/ DetectReentrancy
    \/ DetectUncheckedCall
    \/ DetectTxOrigin
    \/ DetectTxOriginReplaced
    \/ DetectAccessControl
    \/ AnalyzeGas
    \/ DetectIntegerOverflow
    \/ ExtractFunctions
    \/ FindExternalCalls
    \/ AnalyzeStatic

NextAI ==
    \/ AnalyzeWithoutClient
    \/ CallClient
    \/ ParseResponse
    \/ NormalizeResponse
    \/ AnalyzeExcept

SpecScoring == InitScoring /\ [][NextScoring]_vars

SpecStatic == InitStatic /\ [][NextStatic]_vars

Spec == Init /\ [][Next]_vars

SpecText == InitText /\ [][NextText]_vars

SpecAI == InitAI /\ [][NextAI]_vars

SpecPair == InitPair /\ [][NextPair]_vars

(***************************************************************************)
(* Properties                                                              *)
(***************************************************************************)

\* C1: for every histogram with non-negative counts, calculate_risk_score
\* returns an integer between 0 and 100 inclusive.
C1_RiskScoreInRange ==
    score # None => score[1] \in 0..100

\* a histogram whose weighted sum exceeds 100 has been scored
C1_Witness ==
    /\ score = Some(0)
    /\ histogram["critical"] = 4
    /\ histogram["high"] = 1

\* C2: the score is max(0, 100 - (25 critical + 15 high + 8 medium + 3 low +
\* 1 info)); the all-zero histogram scores 100 and four criticals alone score 0.
C2_RiskScoreFormula ==
    score # None =>
        LET h == histogram
            penalty == 25 * h["critical"] + 15 * h["high"] + 8 * h["medium"]
                         + 3 * h["low"] + 1 * h["info"]
        IN /\ score[1] = (IF penalty >= 100 THEN 0 ELSE 100 - penalty)
           /\ (\A k \in Severities : h[k] = 0) => score[1] = 100
           /\ (h["critical"] = 4 /\ \A k \in Severities \ {"critical"} : h[k] = 0)
                => score[1] = 0

\* four critical findings and nothing else have been scored
C2_Witness ==
    /\ score = Some(0)
    /\ histogram["critical"] = 4
    /\ \A k \in Severities \ {"critical"} : histogram[k] = 0

\* The band table of the rating, lowest score of each band first
RatingBands ==
    << <<95, "A+">>, <<90, "A">>, <<85, "A-">>, <<80, "B+">>, <<75, "B">>, <<70, "B-">>,
       <<65, "C+">>, <<60, "C">>, <<55, "C-">>, <<50, "D">> >>

BandOf(s) ==
    LET reached == {i \in DOMAIN RatingBands : s >= RatingBands[i][1]}
    IN IF reached = {} THEN "F"
       ELSE RatingBands[CHOOSE i \in reached : \A j \in reached : i <= j][2]

\* C3: the rating is the band of the score and of nothing else, for every
\* score, and the rating stored on a completed run is the band of the risk
\* score stored on that run.
C3_RatingIsBandOfScore ==
    /\ \A s \in (0 - 10)..110 : calculate_security_rating(s) = BandOf(s)
    /\ \A a \in DOMAIN db :
         db[a].status = "completed" =>
             db[a].security_rating = Some(BandOf(db[a].risk_score))

\* a completed run whose stored score lies on a band boundary below the top band
C3_Witness ==
    \E a \in DOMAIN db :
        /\ db[a].status = "completed"
        /\ db[a].risk_score = 75
        /\ db[a].security_rating = Some("B")

Finished(a) == task[a].pc \in {"done", "crashed"}

\* C4: every run picked up by process_audit_task ends completed or failed,
\* whatever error occurs while the task runs: once the task has finished the
\* run is not left pending or processing.
C4_RunEndsCompletedOrFailed ==
    \A a \in AuditIds :
        (Finished(a) /\ a \in DOMAIN db) => db[a].status \in {"completed", "failed"}

StaticOf(vulns) == SelectSeq(vulns, LAMBDA v : v.detected_by = "static")
AIOf(vulns) == SelectSeq(vulns, LAMBDA v : v.detected_by = "ai")

\* C5: a stage that raises is isolated: its error never reaches the handler
\* that marks the run failed, it adds nothing to the findings or the gas
\* report, the stages after it still run, and a run whose only errors are
\* stage errors ends completed.
C5_StageFailureIsolated ==
    \A a \in AuditIds :
        LET t == task[a]
            stored == IF a \in DOMAIN db THEN vulnerability_rows[a] ELSE <<>>
        IN /\ t.raised \subseteq Stages
           /\ t.exc # None => t.exc[1] \notin Stages
           /\ "static" \in t.raised =>
                /\ StaticOf(t.vulnerabilities) = <<>>
                /\ StaticOf(t.added) = <<>>
                /\ StaticOf(stored) = <<>>
           /\ "ai" \in t.raised =>
                /\ AIOf(t.vulnerabilities) = <<>>
                /\ AIOf(t.added) = <<>>
                /\ AIOf(stored) = <<>>
                /\ "ai_summary" \notin DOMAIN t.attrs
                /\ a \in DOMAIN db => db[a].ai_summary = None
           /\ "gas" \in t.raised =>
                /\ "gas_analysis" \notin DOMAIN t.attrs
                /\ a \in DOMAIN db => db[a].gas_analysis = None
           /\ t.pc = "ai" => t.ran = <<"static">>
           /\ t.pc = "gas" => t.ran = <<"static", "ai">>
           /\ t.pc \in {"persist", "commit_completed"} => t.ran = <<"static", "ai", "gas">>
           /\ (t.pc = "done" /\ t.exc = None /\ a \in DOMAIN db) =>
                /\ db[a].status = "completed"
                /\ t.ran = <<"static", "ai", "gas">>

\* the static stage raised, the later stages ran and contributed, the run completed
C5_Witness ==
    \E a \in DOMAIN db :
        /\ task[a].raised = {"static"}
        /\ task[a].pc = "done"
        /\ db[a].status = "completed"
        /\ Len(vulnerability_rows[a]) > 0
        /\ db[a].gas_analysis # None

OutsideSites == {"commit_processing", "init_analyzers", "commit_completed"}

StatusSteps ==
    {<<"pending", "processing">>, <<"processing", "completed">>, <<"processing", "failed">>}

CountOf(rows, sv) == Cardinality({i \in DOMAIN rows : rows[i].severity = sv})

Contribution(option, field) == IF option = None THEN <<>> ELSE option[1][field]

Raising == {i \in DOMAIN detect_outcome : detect_outcome[i].raises}

RECURSIVE SumLen(_)
SumLen(I) ==
    IF I = {} THEN 0
    ELSE LET i == CHOOSE x \in I : TRUE
         IN Len(detect(i).findings) + SumLen(I \ {i})

OfRule(fs, i) == SelectSeq(fs, LAMBDA f : f.rule_id = rule_id[detectors[i]])

AnalyzeRanDetectors ==
    /\ analyze_pc = "returned"
    /\ language \in {"solidity", "vyper"}
    /\ extract_ok

\* C9: when detectors raise, analyze still returns a list (no exception
\* escapes); the number of findings is the sum over the detectors that did
\* not raise, and every such detector, also one registered after a failing
\* one, has all its findings in the result.
C9_DetectorFaultIsolation ==
    /\ analyze_pc \in {"idle", "start", "detectors", "outer_except", "returned"}
    /\ analyze_pc = "returned" => result # None
    /\ AnalyzeRanDetectors =>
         /\ Len(result[1]) = SumLen(DOMAIN detectors \ Raising)
         /\ \A i \in DOMAIN detectors \ Raising :
              OfRule(result[1], i) = detect(i).findings
         /\ \A i \in Raising : OfRule(result[1], i) = <<>>

\* exactly one detector raised, and detectors before and after it contributed
C9_Witness ==
    /\ AnalyzeRanDetectors
    /\ Raising = {2}
    /\ OfRule(result[1], 1) # <<>>
    /\ OfRule(result[1], 4) # <<>>

RECURSIVE ConcatFrom(_)
ConcatFrom(i) ==
    IF i > Len(detectors) THEN <<>>
    ELSE (IF detect_outcome[i].raises \/ language # "solidity"
             THEN <<>> ELSE detect_outcome[i].findings) \o ConcatFrom(i + 1)

\* C10: analyze returns the detectors' findings concatenated in registration
\* order, each detector's findings in the order it produced them, not
\* reordered by severity.
C10_RegistrationOrder ==
    AnalyzeRanDetectors =>
        /\ result[1] = ConcatFrom(1)
        /\ InRegistrationOrder(result[1])

\* a result in which a high finding precedes a critical one of the same
\* detector and a critical one of a later detector
C10_Witness ==
    /\ AnalyzeRanDetectors
    /\ Len(result[1]) = 3
    /\ result[1][1].rule_id = "SEN-001" /\ result[1][1].severity = "high"
    /\ result[1][2].rule_id = "SEN-001" /\ result[1][2].severity = "critical"
    /\ result[1][3].rule_id = "SEN-002" /\ result[1][3].severity = "critical"

(***************************************************************************)
(* Claims about the detectors' text scans, under SpecText                  *)
(***************************************************************************)
Returned(fn) == out # None /\ out[1].fn = fn

HasExternalCall(line) == SearchAny(external_call_patterns, line)

\* name[key] = ... with a key of word characters and dots
BracketWrite(line) == Search(state_change_pattern[1], line)

\* line N holds an external call, line N+k a bracketed write of the same
\* function, and no line in between is a function boundary
CallThenWrite(N, k) ==
    /\ N + k <= Len(code)
    /\ HasExternalCall(code[N])
    /\ BracketWrite(code[N + k]) /\ ~function_boundary(code[N + k])
    /\ \A j \in (N + 1)..(N + k - 1) : ~function_boundary(code[j])

CriticalAt(fs, N) ==
    {i \in DOMAIN fs : fs[i].line_number = N /\ fs[i].rule_id = "SEN-001"
                         /\ fs[i].severity = "critical"}

\* C11: for a Solidity source whose line N holds an external call and whose
\* line N+k (1 <= k <= 10) holds a bracketed state write of the same function
\* with no function boundary in between, ReentrancyDetector.detect returns
\* exactly one critical SEN-001 finding with line_number N.
C11_ReentrancyCallThenWrite ==
    (Returned("ReentrancyDetector.detect") /\ language = "solidity") =>
        \A N \in DOMAIN code : \A k \in 1..10 :
            CallThenWrite(N, k) => Cardinality(CriticalAt(out[1].value, N)) = 1

C11_Witness ==
    /\ Returned("ReentrancyDetector.detect") /\ language = "solidity"
    /\ \E N \in DOMAIN code :
          /\ CallThenWrite(N, 10)
          /\ \A k \in 1..9 : ~SearchAny(state_change_pattern, code[N + k])
          /\ Cardinality(CriticalAt(out[1].value, N)) = 1


\* the line (bool success, ) = target.call("");  possibly indented
IsCaptureCall(line) == line \in {capture_call_line, Indented(capture_call_line)}

\* a require, assert or if check: the keyword and its opening parenthesis
HasCheck(line) ==
    \E kw \in {"require", "assert", "if"} :
        Contains(line, <<kw, "(">>) \/ Contains(line, <<kw, " ", "(">>)

FindingsAt(fs, rid, N) == {i \in DOMAIN fs : fs[i].line_number = N /\ fs[i].rule_id = rid}

CheckFollows(N) == \E j \in (N + 1)..(N + 5) : j <= Len(code) /\ HasCheck(code[j])

\* C12: a line N of the form (bool success, ) = target.call(""); gets exactly
\* one SEN-004 finding when none of the lines N+1..N+5 contains a require,
\* assert or if check, and no finding when one of them does.
C12_UncheckedCallWindow ==
    (Returned("UncheckedCallDetector.detect") /\ language = "solidity") =>
        \A N \in DOMAIN code :
            IsCaptureCall(code[N]) =>
                Cardinality(FindingsAt(out[1].value, "SEN-004", N))
                    = (IF CheckFollows(N) THEN 0 ELSE 1)


\* C13: a line containing require(tx.origin == owner); gets exactly one
\* SEN-005 finding with its line number, no line of any source gets more than
\* one, and with tx.origin replaced by msg.sender on that line the line gets
\* no finding.
C13_TxOriginOncePerLine ==
    /\ (Returned("TxOriginDetector.detect") /\ language = "solidity") =>
          \A N \in DOMAIN code :
             /\ Cardinality(FindingsAt(out[1].value, "SEN-005", N)) <= 1
             /\ Contains(code[N], require_tx_origin) =>
                   Cardinality(FindingsAt(out[1].value, "SEN-005", N)) = 1
    /\ Returned("TxOriginDetector.detect, replaced") =>
          FindingsAt(out[1].value.findings, "SEN-005", out[1].value.line) = {}

C13_Witness ==
    /\ Returned("TxOriginDetector.detect") /\ language = "solidity"
    /\ \E N \in DOMAIN code :
          /\ Contains(code[N], require_tx_origin)
          /\ Len(matching_patterns(code[N])) >= 2
          /\ Cardinality(FindingsAt(out[1].value, "SEN-005", N)) = 1

\* line N opens a public function named initialize, init or setup that has no
\* initializer modifier and whose body line does not mention initialized
UnguardedInitializerAt(N) ==
    /\ N + 1 <= Len(code)
    /\ \E name \in {"initialize", "init", "setup"} : code[N] = fn_header(name, <<"public", " ">>)
    /\ ~WordIn("initialized", code[N + 1])

\* line N opens a public function that is not view, has no authorization
\* modifier, and whose body line holds a critical operation and no sender check
UnprotectedCriticalAt(N) ==
    /\ N + 1 <= Len(code)
    /\ \E name \in {"close", "initialize", "init", "setup"} :
          code[N] \in {fn_header(name, <<"public", " ">>), fn_header(name, <<>>)}
    /\ \E kw \in critical_keywords : WordIn(kw, code[N + 1])
    /\ ~Contains(code[N + 1], <<"require", "(", "msg", ".", "sender">>)

SeverityAt(fs, rid, N, sv) ==
    \E i \in DOMAIN fs : fs[i].line_number = N /\ fs[i].rule_id = rid /\ fs[i].severity = sv

\* C14: for a Solidity contract with an unguarded public initializer and an
\* unprotected public critical-operation function, AccessControlDetector.detect
\* returns at least two SEN-002 findings: a high one for the initializer and a
\* critical one for the critical-operation function.
C14_AccessControlEndToEnd ==
    (Returned("AccessControlDetector.detect") /\ language = "solidity") =>
        \A N \in DOMAIN code : \A M \in DOMAIN code :
            (UnguardedInitializerAt(N) /\ UnprotectedCriticalAt(M)) =>
                /\ SeverityAt(out[1].value, "SEN-002", N, "high")
                /\ SeverityAt(out[1].value, "SEN-002", M, "critical")
                /\ Len(out[1].value) >= 2

C14_Witness ==
    /\ Returned("AccessControlDetector.detect") /\ language = "solidity"
    /\ \E N \in DOMAIN code : \E M \in DOMAIN code :
          /\ N > M
          /\ UnguardedInitializerAt(N) /\ UnprotectedCriticalAt(M)
          /\ WordIn("mint", code[M + 1])
          /\ out[1].value = <<create_finding_at("AccessControlDetector", M),
                               [create_finding_at("AccessControlDetector", N)
                                  EXCEPT !.severity = "high"]>>


\* the fixed order of the six heuristics
HeuristicRank ==
    [storage_in_loops |-> 1, storage_packing |-> 2, public_function |-> 3,
     redundant_initialization |-> 4, string_usage |-> 5, array_length |-> 6]

EntriesOf(opts, issue) == SelectSeq(opts, LAMBDA o : o.issue = issue)
EntriesNotOf(opts, issues) == SelectSeq(opts, LAMBDA o : o.issue \notin issues)

\* C15: GasAnalyzer.analyze returns the six heuristics' outputs concatenated in
\* the fixed order, and disabling one heuristic removes exactly that
\* heuristic's entries, leaving the other entries and their order unchanged.
C15_GasHeuristicsAdditive ==
    (Returned("GasAnalyzer.analyze") /\ language = "solidity") =>
        LET opts == out[1].value.report.optimizations
            full == GasAnalyzer_analyze(code, language).optimizations
        IN /\ \A i \in DOMAIN opts : \A j \in DOMAIN opts :
                 i < j => HeuristicRank[opts[i].issue] <= HeuristicRank[opts[j].issue]
           /\ \A issue \in DOMAIN HeuristicRank :
                 issue \notin out[1].value.disabled =>
                    EntriesOf(opts, issue) = run_check(issue, code)
           /\ opts = EntriesNotOf(full, out[1].value.disabled)

C15_Witness ==
    /\ Returned("GasAnalyzer.analyze") /\ language = "solidity"
    /\ out[1].value.disabled = {"public_function"}
    /\ LET opts == out[1].value.report.optimizations
       IN /\ \A issue \in DOMAIN HeuristicRank \ {"public_function"} : EntriesOf(opts, issue) # <<>>
          /\ Len(opts) < Len(GasAnalyzer_analyze(code, language).optimizations)

(***************************************************************************)
(* AIReasoningEngine                                                       *)
(***************************************************************************)
Exploitabilities == {"trivial", "easy", "moderate", "difficult", "theoretical"}

\* the JSON value the response text decodes to
DecodedResponse == json_loads(extract_json_text(response[1].text))

\* the vulnerability records of the structure analyze returned
ReturnedVulnerabilities ==
    IF ai_pc = "returned" THEN ai_result[1].vulnerabilities ELSE <<>>

\* C16: every vulnerability record returned after normalization is tagged
\* detected_by ai, has a severity among critical, high, medium, low, info
\* (info when the response gave none), an exploitability among the lower-case
\* enumerated values, and a confidence (85 when the response gave none).
C16_NormalizedRecords ==
    \A i \in DOMAIN ReturnedVulnerabilities :
       LET v == ReturnedVulnerabilities[i]
           raw == DecodedResponse.value.fields.vulnerabilities[i]
       IN /\ v.detected_by = "ai"
          /\ v.severity \in Severities
          /\ "severity" \notin DOMAIN raw => v.severity = "info"
          /\ v.exploitability \in Exploitabilities
          /\ "confidence" \in DOMAIN v
          /\ "confidence" \notin DOMAIN raw => v.confidence = 85

\* the response text is not a JSON object: it does not decode, or it decodes
\* to a JSON value of another type
Malformed ==
    /\ client
    /\ response[1].kind = "text"
    /\ DecodedResponse.raises \/ DecodedResponse.value.type # "dict"

\* C17: analyze on a response that is not valid per the agreed structure
\* returns the fallback structure: the first 500 characters of the raw
\* response text as summary, overall risk medium, every list empty.
C17_MalformedResponseFallback ==
    (ai_pc = "returned" /\ Malformed) =>
       LET raw == response[1].text
       IN ai_result[1] =
            [empty_result(SubSeq(raw, 1, Min(SummaryLimit, Len(raw)))) EXCEPT !.overall_risk = "medium"]


(***************************************************************************)
(* Languages other than solidity                                           *)
(***************************************************************************)
LanguageGuarded ==
    {"extract_functions", "find_external_calls", "StaticAnalyzer.analyze",
     "ReentrancyDetector.detect", "AccessControlDetector.detect",
     "IntegerOverflowDetector.detect", "UncheckedCallDetector.detect",
     "TxOriginDetector.detect"}

\* C18: for a language tag other than solidity, extract_functions and
\* find_external_calls return empty sequences, every detector returns no
\* findings and StaticAnalyzer.analyze returns an empty list.
C18_NonSolidityEmpty ==
    (out # None /\ language # "solidity" /\ out[1].fn \in LanguageGuarded) =>
       out[1].value = <<>>

\* analyze returned the empty list for a vyper source that has findings when
\* it is tagged solidity
C18_Witness ==
    /\ Returned("StaticAnalyzer.analyze")
    /\ language = "vyper"
    /\ out[1].value = <<>>
    /\ StaticAnalyzer_analyze(code, "solidity") # <<>>
    /\ extract_functions(code, "solidity") # <<>>

(***************************************************************************)
(* The gas stage and the external stage of a run                           *)
(***************************************************************************)
\* C19: a completed run whose language tag is vyper or move stores a gas
\* report with an empty optimization list and potential savings "N/A",
\* whatever the source text contains.
C19_GasShortCircuit ==
    \A a \in DOMAIN db :
       (/\ db[a].status = "completed"
        /\ db[a].language # "solidity"
        /\ db[a].gas_analysis # None) =>
          /\ db[a].gas_analysis[1].optimizations = <<>>
          /\ db[a].gas_analysis[1].potential_savings = None

AIRows(a) == SelectSeq(vulnerability_rows[a], LAMBDA v : v.detected_by = "ai")

\* C20: with no credential configured the external stage calls no external
\* service and analyze returns the not-available structure: summary "AI
\* analysis not available - API key not configured", overall risk unknown,
\* every list empty; a run that completes has no external finding.
C20_NoCredential ==
    \A a \in AuditIds :
       LET t == task[a]
       IN (~t.client /\ t.pc \in {"gas", "persist", "commit_completed", "done"}) =>
             /\ ~t.api_called
             /\ t.ai_findings # None =>
                   /\ t.ai_findings[1] = not_available
                   /\ t.ai_findings[1].overall_risk = "unknown"
                   /\ t.ai_findings[1].vulnerabilities = <<>>
             /\ (a \in DOMAIN db /\ db[a].status = "completed") => AIRows(a) = <<>>

\* a run without a credential has completed with static findings stored, the
\* not-available structure returned by the external stage
C20_Witness ==
    \E a \in DOMAIN db :
       /\ db[a].status = "completed"
       /\ task[a].pc = "done"
       /\ ~task[a].client
       /\ task[a].ai_findings = Some(not_available)
       /\ db[a].ai_summary = Some(not_available.summary)
       /\ vulnerability_rows[a] # <<>>

(***************************************************************************)
(* Two runs on different audits                                            *)
(***************************************************************************)
\* what a completed run stored is what its own locals give
PersistedOwn(a) ==
    (a \in DOMAIN db /\ db[a].status = "completed") =>
       LET rows == vulnerability_rows[a]
           severity_counts == count_severities(rows)
       IN /\ rows = task[a].vulnerabilities
          /\ db[a].critical_count = severity_counts["critical"]
          /\ db[a].high_count = severity_counts["high"]
          /\ db[a].medium_count = severity_counts["medium"]
          /\ db[a].low_count = severity_counts["low"]
          /\ db[a].info_count = severity_counts["info"]
          /\ db[a].risk_score = calculate_risk_score(severity_counts)
          /\ db[a].security_rating = Some(calculate_security_rating(db[a].risk_score))
          /\ db[a].gas_analysis \in {None, Some(GasAnalyzer_analyze(RunInput[a].source, "solidity"))}

\* a step of one run leaves the other run's locals and rows as they are
StepLocal ==
    \E a \in PairIds :
       \A b \in PairIds \ {a} :
          /\ task'[b] = task[b]
          /\ vulnerability_rows'[b] = vulnerability_rows[b]
          /\ (b \in DOMAIN db') = (b \in DOMAIN db)
          /\ b \in DOMAIN db => db'[b] = db[b]

\* C21: two runs on different audits share no mutable state: every step
\* changes the locals and rows of one run only, the findings, counts, score,
\* rating and gas report a run stores are those of its own execution, and no
\* finding of one run is stored with the other.
C21_RunsIsolated ==
    /\ [](\A a \in PairIds :
            /\ PersistedOwn(a)
            /\ \A i \in DOMAIN vulnerability_rows[a] : OwnFinding(a, vulnerability_rows[a][i]))
    /\ [][StepLocal]_vars

\* both runs have completed, each with static and external findings stored,
\* and with different gas reports
C21_Witness ==
    /\ \A a \in PairIds :
          /\ a \in DOMAIN db /\ db[a].status = "completed"
          /\ \E i, j \in DOMAIN vulnerability_rows[a] :
                /\ vulnerability_rows[a][i].detected_by = "static"
                /\ vulnerability_rows[a][j].detected_by = "ai"
          /\ db[a].gas_analysis # None
    /\ db["a1"].gas_analysis # db["a2"].gas_analysis
    /\ db["a1"].risk_score # db["a2"].risk_score

(***************************************************************************)
(* The fields of a static finding                                          *)
(***************************************************************************)
DetectFunctions ==
    [d \in {detectors[k] : k \in DOMAIN detectors} |->
       CASE d = "ReentrancyDetector" -> "ReentrancyDetector.detect"
         [] d = "AccessControlDetector" -> "AccessControlDetector.detect"
         [] d = "IntegerOverflowDetector" -> "IntegerOverflowDetector.detect"
         [] d = "UncheckedCallDetector" -> "UncheckedCallDetector.detect"
         [] d = "TxOriginDetector" -> "TxOriginDetector.detect"]

StandardFields(f) ==
    /\ f.category = "security"
    /\ f.detected_by = "static"
    /\ f.confidence = 90
    /\ f.severity \in Severities
    /\ f.references # None

\* C22: every finding StaticAnalyzer.analyze returns, and so every finding a
\* detector returns to it, carries the rule_id of the detector that produced
\* it (SEN-001..SEN-005), category security, detected_by static, confidence
\* 90, one of the five severities and a references list that is never absent.
C22_StandardFindingFields ==
    /\ \A d \in DOMAIN DetectFunctions :
          Returned(DetectFunctions[d]) =>
             \A i \in DOMAIN out[1].value :
                out[1].value[i].rule_id = rule_id[d] /\ StandardFields(out[1].value[i])
    /\ Returned("StaticAnalyzer.analyze") =>
          /\ out[1].value =
               Flatten([k \in DOMAIN detectors |-> detect_on(detectors[k], code, language)])
          /\ \A i \in DOMAIN out[1].value :
                /\ out[1].value[i].rule_id \in {rule_id[d] : d \in DOMAIN DetectFunctions}
                /\ StandardFields(out[1].value[i])

\* analyze returned findings of two detectors, each with its references
C22_Witness ==
    /\ Returned("StaticAnalyzer.analyze")
    /\ \E i, j \in DOMAIN out[1].value :
          /\ out[1].value[i].rule_id # out[1].value[j].rule_id
          /\ out[1].value[i].references = Some(<<"url">>)

(***************************************************************************)
(* Severities of static findings                                           *)
(***************************************************************************)
\* the finding reports one of the three sub-cases a detector downgrades
PayableCase(f) == Search(payable_pattern, code[f.line_number])
InitializerCase(f) == code[f.line_number][3] \in {"initialize", "init", "setup"}
UncheckedBlockCase(f) ==
    Search(unchecked_pattern, code[f.line_number]) /\ overflow_protected(Join(code))

ExpectedSeverity(d, f) ==
    CASE d = "ReentrancyDetector" /\ PayableCase(f) -> "high"
      [] d = "AccessControlDetector" /\ InitializerCase(f) -> "high"
      [] d = "IntegerOverflowDetector" /\ UncheckedBlockCase(f) -> "medium"
      [] OTHER -> default_severity[d]

\* C23: a static finding has its detector's default severity (SEN-001 and
\* SEN-002 critical, SEN-003 to SEN-005 high), except that a payable function
\* without a guard and an unguarded initializer are high and an unchecked
\* block is medium; a downgraded finding leaves the default of the findings
\* created after it unchanged.
C23_SeverityDefaultsAndDowngrades ==
    /\ default_severity =
         [ReentrancyDetector |-> "critical", AccessControlDetector |-> "critical",
          IntegerOverflowDetector |-> "high", UncheckedCallDetector |-> "high",
          TxOriginDetector |-> "high"]
    /\ \A d \in DOMAIN DetectFunctions :
          Returned(DetectFunctions[d]) =>
             \A i \in DOMAIN out[1].value :
                out[1].value[i].severity = ExpectedSeverity(d, out[1].value[i])

\* the access control detector returned a critical finding after a finding it
\* had downgraded to high
C23_Witness ==
    /\ Returned("AccessControlDetector.detect")
    /\ \E i, j \in DOMAIN out[1].value :
          /\ i < j
          /\ InitializerCase(out[1].value[i]) /\ out[1].value[i].severity = "high"
          /\ ~InitializerCase(out[1].value[j]) /\ out[1].value[j].severity = "critical"

(***************************************************************************)
(* The order of the three stages                                           *)
(***************************************************************************)
StageOrder == <<"static", "ai", "gas">>

StaticFound(t) == IF t.static_findings = None THEN <<>> ELSE t.static_findings[1]

\* C24: the stages of a run execute in the order static, external, gas; the
\* external analyzer is given exactly the static findings found so far; and
\* in the findings of a completed run every static finding precedes every
\* external finding.
C24_StageOrder ==
    \A a \in AuditIds :
       LET t == task[a]
           rows == vulnerability_rows[a]
       IN /\ Len(t.ran) <= Len(StageOrder) /\ t.ran = SubSeq(StageOrder, 1, Len(t.ran))
          /\ t.given_static_findings # None => t.given_static_findings[1] = StaticFound(t)
          /\ (a \in DOMAIN db /\ db[a].status = "completed") =>
                \A i, j \in DOMAIN rows :
                   (rows[i].detected_by = "static" /\ rows[j].detected_by = "ai") => i < j

\* a run has completed after its three stages, the external analyzer was
\* given a static finding and added one of its own
C24_Witness ==
    \E a \in DOMAIN db :
       /\ db[a].status = "completed"
       /\ task[a].ran = StageOrder
       /\ task[a].given_static_findings # None /\ task[a].given_static_findings[1] # <<>>
       /\ \E i, j \in DOMAIN vulnerability_rows[a] :
             /\ vulnerability_rows[a][i].detected_by = "static"
             /\ vulnerability_rows[a][j].detected_by = "ai"

(***************************************************************************)
(* IntegerOverflowDetector                                                 *)
(***************************************************************************)
\* the source opens with a version pragma; its major and minor numbers
HasPragma == code # <<>> /\ code[1] # <<>> /\ code[1][1] = "pragma"
DeclaredMajor == IntOf(code[1][Len(code[1]) - 5])
DeclaredMinor == IntOf(code[1][Len(code[1]) - 3])
DeclaresChecked == DeclaredMajor > 0 \/ DeclaredMinor >= 8

UncheckedLines == {n \in DOMAIN code : Contains(code[n], <<"unchecked", " ", "{">>)}

IsArithmeticFinding(f) == "operation" \in DOMAIN f

\* line n holds +=, -=, *= or an assignment of a +, - or * expression, and
\* does not begin as a single-line comment
OffendingLine(n) ==
    /\ ~StripStartsWith(code[n], <<"/", "/">>)
    /\ \E k \in DOMAIN arithmetic_patterns : Search(arithmetic_patterns[k].pattern, code[n])

\* C25: for a source whose pragma declares a version of at least 0.8 the
\* detector returns one medium SEN-003 finding per unchecked block and no
\* arithmetic finding; for an older declared version it returns arithmetic
\* findings only, and none when a SafeMath marker occurs in the source.
C25_VersionAware ==
    (Returned("IntegerOverflowDetector.detect") /\ language = "solidity" /\ HasPragma) =>
       LET fs == out[1].value
       IN IF DeclaresChecked
             THEN /\ \A i \in DOMAIN fs :
                        /\ ~IsArithmeticFinding(fs[i])
                        /\ fs[i].rule_id = "SEN-003" /\ fs[i].severity = "medium"
                        /\ fs[i].line_number \in UncheckedLines
                  /\ \A n \in UncheckedLines :
                        Cardinality({i \in DOMAIN fs : fs[i].line_number = n}) = 1
             ELSE /\ \A i \in DOMAIN fs : IsArithmeticFinding(fs[i])
                  /\ uses_safemath(Join(code)) => fs = <<>>
                  /\ (~uses_safemath(Join(code)) /\ \E n \in DOMAIN code : OffendingLine(n)) =>
                        fs # <<>>

\* C26: on the path for versions before 0.8, without a SafeMath marker, the
\* findings correspond one-to-one to the offending lines: every line with an
\* arithmetic operation outside a single-line comment has a finding, and no
\* line has more than one.
C26_OneFindingPerOffendingLine ==
    (/\ Returned("IntegerOverflowDetector.detect") /\ language = "solidity"
     /\ ~overflow_protected(Join(code)) /\ ~uses_safemath(Join(code))) =>
       LET fs == out[1].value
       IN /\ \A i \in DOMAIN fs : OffendingLine(fs[i].line_number)
          /\ \A n \in DOMAIN code :
                OffendingLine(n) => Cardinality({i \in DOMAIN fs : fs[i].line_number = n}) = 1

\* the lines after line N that hold an assignment
AssignmentsAfter(N) == {j \in (N + 1)..Len(code) : SearchAny(state_change_pattern, code[j])}

FirstAssignmentAfter(N) == CHOOSE j \in AssignmentsAfter(N) : \A k \in AssignmentsAfter(N) : j <= k

\* the first assignment after the call on line N lies beyond line N+10, or a
\* function boundary lies between the call and it
OutOfReach(N) ==
    /\ HasExternalCall(code[N])
    /\ AssignmentsAfter(N) # {}
    /\ \/ FirstAssignmentAfter(N) > N + 10
       \/ \E b \in (N + 1)..(FirstAssignmentAfter(N) - 1) : function_boundary(code[b])

\* C27: the look-ahead for an external call on line N examines only lines
\* N+1..N+10 and stops at the first function boundary: when the first
\* assignment after the call lies beyond line N+10 or after a boundary, no
\* Checks-Effects-Interactions finding is reported for line N.
C27_LookAheadWindow ==
    (Returned("ReentrancyDetector.detect") /\ language = "solidity") =>
        \A N \in DOMAIN code : OutOfReach(N) => CriticalAt(out[1].value, N) = {}

C27_Witness ==
    /\ Returned("ReentrancyDetector.detect") /\ language = "solidity"
    /\ \E N \in DOMAIN code :
          /\ OutOfReach(N) /\ FirstAssignmentAfter(N) = N + 11
          /\ \A b \in (N + 1)..(N + 10) : ~function_boundary(code[b])
          /\ BracketWrite(code[N + 11])
          /\ CriticalAt(out[1].value, N) = {}

LoopHeader(line) == Contains(line, <<"for", "(">>) \/ Contains(line, <<"for", " ", "(">>)

\* the storage-in-loops entries reported for line L
StorageEntriesAt(L) ==
    {i \in DOMAIN out[1].value.report.optimizations :
        /\ out[1].value.report.optimizations[i].issue = "storage_in_loops"
        /\ out[1].value.report.optimizations[i].line = L}

ReadWithin(L, n) == \E j \in (L + 1)..(L + n) : j <= Len(code) /\ storage_read(code[j])

\* C28: the storage-reads-in-loops heuristic looks ahead 15 lines: a loop
\* header on line L yields exactly one entry, at L, if and only if a storage
\* read (name[key] or the word storage) occurs on one of lines L+1..L+15.
C28_StorageWindow ==
    (/\ Returned("GasAnalyzer.analyze") /\ language = "solidity"
     /\ "storage_in_loops" \notin out[1].value.disabled) =>
        \A L \in DOMAIN code :
            LoopHeader(code[L]) =>
               /\ Cardinality(StorageEntriesAt(L)) <= 1
               /\ (Cardinality(StorageEntriesAt(L)) = 1) <=> ReadWithin(L, 15)

\* the grades from the worst to the best
GradeOrder == <<"F", "D", "C-", "C", "C+", "B-", "B", "B+", "A-", "A", "A+">>

GradeRank(g) == CHOOSE i \in DOMAIN GradeOrder : GradeOrder[i] = g

RatingMonotone ==
    \A s \in 0..100 : \A t \in s..100 :
        GradeRank(calculate_security_rating(s)) <= GradeRank(calculate_security_rating(t))

EveryGradeAttained ==
    \A i \in DOMAIN GradeOrder : \E s \in 0..100 : calculate_security_rating(s) = GradeOrder[i]

\* C29: calculate_security_rating is monotone on the scores 0..100: a higher
\* score never gets a worse grade (order A+, A, A-, B+, B, B-, C+, C, C-, D,
\* F), and each of the 11 grades is the rating of at least one score; the
\* rating computed for a score is no better than that of any higher score
\* and no worse than that of any lower one.
C29_RatingMonotone ==
    /\ RatingMonotone
    /\ EveryGradeAttained
    /\ rating # None =>
          /\ \E i \in DOMAIN GradeOrder : GradeOrder[i] = rating[1]
          /\ \A t \in 0..100 :
                /\ t <= score[1] =>
                      GradeRank(calculate_security_rating(t)) <= GradeRank(rating[1])
                /\ t >= score[1] =>
                      GradeRank(rating[1]) <= GradeRank(calculate_security_rating(t))

\* the rating of a score in the narrow band just above F
C29_Witness ==
    /\ rating = Some("D") /\ score = Some(50)
    /\ calculate_security_rating(49) = "F" /\ calculate_security_rating(55) = "C-"

\* the matches of function_pattern in the source
FunctionMatches == FindIter(function_pattern, Join(code), 1)

\* the brace depth after position p for a body that opened before position from
Depth(txt, from, p) ==
    1 + Cardinality({q \in from..p : txt[q] = "{"}) - Cardinality({q \in from..p : txt[q] = "}"})

\* e is the position just past the first brace that brings the depth to 0,
\* or the end of the text when the depth never reaches 0
JustPastBalance(txt, from, e) ==
    LET closing == {p \in from..Len(txt) : Depth(txt, from, p) = 0}
    IN IF closing = {} THEN e = Len(txt) + 1
       ELSE e - 1 \in closing /\ \A p \in closing : e - 1 <= p

\* the start of the first function after position pos, or the end of the text
NextFunctionStart(pos) ==
    LET later == {k \in DOMAIN FunctionMatches : FunctionMatches[k].start > pos}
    IN IF later = {} THEN Len(Join(code)) + 1
       ELSE FunctionMatches[CHOOSE k \in later : \A j \in later : k <= j].start

\* the text of the function matched by m, up to the next function
OwnText(m) == SubSeq(Join(code), m.end, NextFunctionStart(m.start) - 1)

\* C30: _find_function_end terminates for every text and start offset and
\* returns the offset just past the balancing closing brace (the end of the
\* source when the braces never balance), so the body of a function holds no
\* text of a later function, and a critical operation of a later function is
\* never attributed to an earlier one.
C30_FunctionEnd ==
    (Returned("AccessControlDetector.detect") /\ language = "solidity") =>
        LET txt == Join(code)
        IN /\ \A k \in DOMAIN FunctionMatches :
                LET m == FunctionMatches[k]
                    e == find_function_end(txt, m.end)
                IN /\ e \in m.end..(Len(txt) + 1)
                   /\ JustPastBalance(txt, m.end, e)
                   /\ e <= NextFunctionStart(m.start)
           /\ \A i \in DOMAIN out[1].value :
                out[1].value[i].severity = "critical" =>
                   \E k \in DOMAIN FunctionMatches :
                      /\ LineOf(txt, FunctionMatches[k].start) = out[1].value[i].line_number
                      /\ has_critical_operation(OwnText(FunctionMatches[k]))

============================================================================
